---------------------------- MODULE Spec2Model ----------------------------
(***************************************************************************)
(* A model of the King-of-the-Court predictor: the lineup optimizer        *)
(* (src/src/lib/optimizer.ts), the two-model ranker (src/src/lib/          *)
(* scoring.ts), the prediction variants (src/src/lib/prediction-model.ts,  *)
(* src/unnamed/part_000) and the backtest (src/src/lib/backtest.ts,        *)
(* src/src/app/api/backtest/route.ts).                                     *)
(*                                                                         *)
(* Each subsystem has its own specification (SpecLineup, SpecRank, ...);   *)
(* the variables of the other subsystems stay at their idle values.        *)
(* Numbers that are floats in the source are exact fixed-point integers    *)
(* here; each definition names its unit.                                   *)
(***************************************************************************)
EXTENDS Integers, Sequences, FiniteSets, TLC

VARIABLES
  lu_players,      \* buildLineup: the caller's player array (DKPlayer[])
  lu_settings,     \* buildLineup: the OptimizationSettings record
  lu_sorted,       \* buildLineup: sortedPlayers
  lu_slots,        \* buildLineup: slots[i].player, NoPlayer for null
  lu_used,         \* buildLineup: usedPlayers
  lu_teamCounts,   \* buildLineup: teamCounts
  lu_totalSalary,  \* buildLineup: totalSalary
  lu_slotIdx,      \* buildLineup: position of the outer for-loop (1-based)
  lu_pc,           \* "idle" | "fill" | "built" | "validated"
  lu_lineup,       \* the Lineup returned by buildLineup
  lu_errors        \* the string[] returned by validateLineup

lineupVars == << lu_players, lu_settings, lu_sorted, lu_slots, lu_used,
                 lu_teamCounts, lu_totalSalary, lu_slotIdx, lu_pc,
                 lu_lineup, lu_errors >>

VARIABLES
  sc_player,       \* the EnhancedPlayerData record handed to the scoring functions
  sc_runs          \* the calls made so far: [fn, input, output], oldest first

scoreVars == << sc_player, sc_runs >>

VARIABLES
  rk_input,        \* the player array handed to a ranking function
  rk_out,          \* what the ranking function returned; [fn |-> "none"] before
  rk_again,        \* rankPlayers applied to a list rankPlayers returned
  rk_self          \* a comparison of the returned ranking with itself

rankVars == << rk_input, rk_out, rk_again, rk_self >>

VARIABLES
  bt_predictions,  \* the Prediction[] handed to the backtest, best first
  bt_actual,       \* what getAllPlayerResults(date) returns, highest PRA first
  bt_result,       \* what backtestDate returned; [fn |-> "none"] before
  bt_summary       \* what quickBacktest returned; [fn |-> "none"] before

backtestVars == << bt_predictions, bt_actual, bt_result, bt_summary >>

VARIABLES
  gl_players,      \* the DKPlayer[] handed to generateLineups
  gl_settings,     \* its OptimizationSettings
  gl_count,        \* its count argument
  gl_out           \* what generateLineups returned; [fn |-> "none"] before

generateVars == << gl_players, gl_settings, gl_count, gl_out >>

\* The subsystems other than the optimizer's buildLineup, the scoring
\* functions, the ranking functions and the backtest of one date.
VARIABLES
  fr_mem,          \* the caller's memory before the call: objects and arrays
  fr_settings,     \* the OptimizationSettings of an optimizer call
  fr_after         \* the function called and the memory after it returned

frameVars == << fr_mem, fr_settings, fr_after >>

VARIABLES
  rb_dates,        \* the dates handed to runBacktest, as days of the catalog
  rb_summary,      \* the BacktestSummary it returned; [fn |-> "none"] before
  rb_other         \* runBacktest on the same dates in another order

runVars == << rb_dates, rb_summary, rb_other >>

VARIABLES
  cp_compareMode,  \* history page: compareMode
  cp_comparePlayers \* history page: comparePlayers

compareVars == << cp_compareMode, cp_comparePlayers >>

VARIABLES
  gt_request,      \* predictions route: the query parameters mock and model
  gt_espn,         \* what fetchGames and quickFetchPlayers do when called
  gt_response      \* the JSON the handler returned; [fn |-> "none"] before

getVars == << gt_request, gt_espn, gt_response >>

VARIABLES
  pg_data,         \* predictions page: data, Null before the first response
  pg_loading,      \* predictions page: loading
  pg_error,        \* predictions page: error, Null or Some(message)
  pg_modelVersion, \* predictions page: modelVersion
  pg_selectedDate, \* predictions page: selectedDate
  pg_refreshing,   \* predictions page: refreshing
  pg_calls,        \* the fetchPredictions calls so far, each with the model and
                   \* date of its request and where it stands
  pg_rendered      \* loading, error and refreshing as the render on screen saw them

pageVars == << pg_data, pg_loading, pg_error, pg_modelVersion, pg_selectedDate,
              pg_refreshing, pg_calls, pg_rendered >>

laterVars == << generateVars, frameVars, runVars, compareVars, getVars, pageVars >>

vars == << lineupVars, scoreVars, rankVars, backtestVars, laterVars >>

\* The variables the optimizer never touches.
notLineup == << scoreVars, rankVars, backtestVars, laterVars >>
\* The variables the scoring functions never touch.
notScore == << lineupVars, rankVars, backtestVars, laterVars >>
\* The variables the ranking functions never touch.
notRank == << lineupVars, scoreVars, backtestVars, laterVars >>
\* The variables the backtest never touches.
notBacktest == << lineupVars, scoreVars, rankVars, laterVars >>
\* The variables generateLineups never touches.
notGenerate == << lineupVars, scoreVars, rankVars, backtestVars, frameVars, runVars,
                 compareVars, getVars, pageVars >>
\* The variables outside the caller's memory.
notFrame == << lineupVars, scoreVars, rankVars, backtestVars, generateVars, runVars,
              compareVars, getVars, pageVars >>
\* The variables runBacktest never touches.
notRun == << lineupVars, scoreVars, rankVars, backtestVars, generateVars, frameVars,
            compareVars, getVars, pageVars >>
\* The variables the comparison panel never touches.
notCompare == << lineupVars, scoreVars, rankVars, backtestVars, generateVars, frameVars,
                runVars, getVars, pageVars >>
\* The variables the predictions route never touches.
notGet == << lineupVars, scoreVars, rankVars, backtestVars, generateVars, frameVars,
            runVars, compareVars, pageVars >>
\* The variables the predictions page's fetching never touches.
notPage == << lineupVars, scoreVars, rankVars, backtestVars, generateVars, frameVars,
             runVars, compareVars, getVars >>

GenerateIdle ==
  /\ gl_players = << >>
  /\ gl_settings = [salary_cap |-> 0]
  /\ gl_count = 0
  /\ gl_out = [fn |-> "none"]

FrameIdle ==
  /\ fr_mem = [objs |-> << >>, arrs |-> << >>]
  /\ fr_settings = [salary_cap |-> 0]
  /\ fr_after = [fn |-> "none"]

RunIdle ==
  /\ rb_dates = << >>
  /\ rb_summary = [fn |-> "none"]
  /\ rb_other = [fn |-> "none"]

CompareIdle ==
  /\ cp_compareMode = FALSE
  /\ cp_comparePlayers = << >>

GetIdle ==
  /\ gt_request = [mock |-> FALSE]
  /\ gt_espn = [crash |-> FALSE]
  /\ gt_response = [fn |-> "none"]

\* The state hooks of Home as its first render leaves them (lines 357-369),
\* with no fetchPredictions call made yet.
PageIdle ==
  /\ pg_data = << >>
  /\ pg_loading = TRUE
  /\ pg_error = << >>
  /\ pg_modelVersion = "v1"
  /\ pg_selectedDate = "today"
  /\ pg_refreshing = FALSE
  /\ pg_calls = << >>
  /\ pg_rendered = [loading |-> TRUE, error |-> << >>, refreshing |-> FALSE]

LaterIdle == GenerateIdle /\ FrameIdle /\ RunIdle /\ CompareIdle /\ GetIdle /\ PageIdle

ScoreIdle ==
  /\ sc_player = [player_id |-> "none"]
  /\ sc_runs = << >>

RankIdle ==
  /\ rk_input = << >>
  /\ rk_out = [fn |-> "none"]
  /\ rk_again = [of |-> "none"]
  /\ rk_self = [fn |-> "none"]

BacktestIdle ==
  /\ bt_predictions = << >>
  /\ bt_actual = << >>
  /\ bt_result = [fn |-> "none"]
  /\ bt_summary = [fn |-> "none"]

-----------------------------------------------------------------------------
(* Generic helpers *)

Range(s) == { s[i] : i \in DOMAIN s }

RECURSIVE SumSeq(_)
SumSeq(s) == IF s = << >> THEN 0 ELSE Head(s) + SumSeq(Tail(s))

\* All sequences over S of length 0..n
SeqsUpTo(S, n) == UNION { [1..k -> S] : k \in 0..n }

\* The same sequence with every element worked out once.
Listed(s) == SubSeq(s, 1, Len(s))

Min2(a, b) == IF a <= b THEN a ELSE b
Max2(a, b) == IF a >= b THEN a ELSE b

-----------------------------------------------------------------------------
(* ===================== Lineup optimizer (optimizer.ts) =================== *)

\* Bounds of the optimizer model: pool size and the values a player may carry.
MaxPool == 3
LuTeams == {"LAL", "BOS"}
LuSalaries == {0, 4000, 6000}              \* dollars
LuPlayerPositions == {"G", "F"}            \* dk_position of a pool player
LuCaps == {10000}
LuTeamLimits == {1, 2}
LuTemplates == { <<"G", "F", "UTIL">> }

\* <<v1_score, v2_score>> of the pool's i-th player: the two models order the
\* pool differently, and equal densities occur (20 / 4 = 30 / 6).
LuScoreOf(i) == << 10 * ((i % 3) + 1), 10 * (3 - (i % 3)) >>

NoPlayer == [player_id |-> "none"]
NoLineup == [slots |-> << >>, total_salary |-> 0, remaining_salary |-> 0,
             projected_score |-> 0, value_score |-> 0]

\* DKPlayer: the fields buildLineup and validateLineup read.  player_id is the
\* player's index in the pool, so identifiers are distinct.
MkPlayer(i, team, sal, sc, pos) ==
  [player_id |-> i, team_abbrev |-> team, salary |-> sal,
   v1_score |-> sc[1], v2_score |-> sc[2], dk_position |-> pos]

\* The pools buildLineup is called with.  Team names are interchangeable, so
\* the first player's team is fixed.
LuPools ==
  UNION { { [i \in 1..n |-> MkPlayer(i, f[i][1], f[i][2], LuScoreOf(i), f[i][3])] :
            f \in { g \in [1..n -> LuTeams \X LuSalaries \X LuPlayerPositions] :
                      n > 0 => g[1][1] = "LAL" } } :
          n \in 0..MaxPool }

LuSettingsSet ==
  [salary_cap : LuCaps, positions : LuTemplates,
   max_players_per_team : LuTeamLimits, model_version : {"v1", "v2"}]

\* POSITION_ELIGIBILITY[playerPos] || ['UTIL']
POSITION_ELIGIBILITY(playerPos) ==
  CASE playerPos = "PG" -> {"PG", "G", "UTIL"}
    [] playerPos = "SG" -> {"SG", "G", "UTIL"}
    [] playerPos = "SF" -> {"SF", "F", "UTIL"}
    [] playerPos = "PF" -> {"PF", "F", "UTIL"}
    [] playerPos = "C"  -> {"C", "F", "UTIL"}
    [] playerPos = "G"  -> {"G", "UTIL"}
    [] playerPos = "F"  -> {"F", "UTIL"}
    [] OTHER -> {"UTIL"}

canFillPosition(playerPos, slotPos) ==
  slotPos \in POSITION_ELIGIBILITY(playerPos) \/ slotPos = "UTIL"

\* settings.model_version === 'v2' ? p.v2_score : p.v1_score
LuScore(p, settings) ==
  IF settings.model_version = "v2" THEN p.v2_score ELSE p.v1_score

\* The class of the float score / (salary / 1000): finite, +Infinity, -Infinity
\* or NaN (0 / 0).  Salaries are never negative in the model.
DensityClass(p, settings) ==
  IF p.salary # 0 THEN "fin"
  ELSE IF LuScore(p, settings) > 0 THEN "pinf"
  ELSE IF LuScore(p, settings) < 0 THEN "ninf"
  ELSE "nan"

Sign(x) == IF x > 0 THEN 1 ELSE IF x < 0 THEN -1 ELSE 0

\* The sort comparator (a, b) => valueB - valueA, as its sign; a NaN result
\* (NaN operand, or Infinity - Infinity) is read by Array.prototype.sort as 0.
DensityCompare(a, b, settings) ==
  LET ca == DensityClass(a, settings)
      cb == DensityClass(b, settings)
  IN  IF ca = "nan" \/ cb = "nan" THEN 0
      ELSE IF ca = "fin" /\ cb = "fin"
        THEN Sign(LuScore(b, settings) * a.salary - LuScore(a, settings) * b.salary)
      ELSE IF ca = cb THEN 0
      ELSE IF ca = "pinf" \/ cb = "ninf" THEN -1
      ELSE 1

\* Stable insertion of x into an already sorted sequence: x goes after every
\* element that does not compare greater than it.
RECURSIVE LuInsert(_, _, _)
LuInsert(x, s, settings) ==
  IF s = << >> THEN << x >>
  ELSE IF DensityCompare(s[Len(s)], x, settings) > 0
    THEN Append(LuInsert(x, SubSeq(s, 1, Len(s) - 1), settings), s[Len(s)])
    ELSE Append(s, x)

RECURSIVE LuStableSort(_, _)
LuStableSort(s, settings) ==
  IF s = << >> THEN << >>
  ELSE LuInsert(s[Len(s)], LuStableSort(SubSeq(s, 1, Len(s) - 1), settings), settings)

SeqPermutations(s) ==
  { [i \in DOMAIN s |-> s[f[i]]] :
      f \in { g \in [DOMAIN s -> DOMAIN s] : \A i, j \in DOMAIN s : i # j => g[i] # g[j] } }

\* [...players].sort(cmp): the stable sort when the comparator is a consistent
\* ordering; with a NaN density the comparator is inconsistent and the order
\* is implementation-defined, so any permutation may come back.
LuSortOutcomes(players, settings) ==
  IF \E i \in DOMAIN players : DensityClass(players[i], settings) = "nan"
    THEN SeqPermutations(players)
    ELSE { LuStableSort(players, settings) }

TeamCountOf(teamCounts, team) ==
  IF team \in DOMAIN teamCounts THEN teamCounts[team] ELSE 0

\* Mutants of the inner loop's guards: the salary-cap guard dropped, and the
\* team-limit guard off by one.
LuEligible_NoCapGuard(p, slotPos, used, teamCounts, total, settings) ==
  /\ p.player_id \notin used
  /\ TeamCountOf(teamCounts, p.team_abbrev) < settings.max_players_per_team
  /\ canFillPosition(p.dk_position, slotPos)

LuEligible_TeamOffByOne(p, slotPos, used, teamCounts, total, settings) ==
  /\ p.player_id \notin used
  /\ TeamCountOf(teamCounts, p.team_abbrev) <= settings.max_players_per_team
  /\ ~ (total + p.salary > settings.salary_cap)
  /\ canFillPosition(p.dk_position, slotPos)

\* The four `continue` guards of the inner loop, negated.
LuEligible(p, slotPos, used, teamCounts, total, settings) ==
  /\ p.player_id \notin used
  /\ TeamCountOf(teamCounts, p.team_abbrev) < settings.max_players_per_team
  /\ ~ (total + p.salary > settings.salary_cap)
  /\ canFillPosition(p.dk_position, slotPos)

\* The inner loop without its `break`: the last candidate that passes the
\* guards stays in the slot.
LuPick_LastEligible(sorted, slotPos, used, teamCounts, total, settings) ==
  LET ok == { i \in DOMAIN sorted :
                LuEligible(sorted[i], slotPos, used, teamCounts, total, settings) }
  IN  IF ok = {} THEN 0 ELSE CHOOSE i \in ok : \A j \in ok : i >= j

\* Index in sortedPlayers of the player the inner loop assigns, 0 when the
\* loop runs to its end without a `break`.
LuPick(sorted, slotPos, used, teamCounts, total, settings) ==
  LET ok == { i \in DOMAIN sorted :
                LuEligible(sorted[i], slotPos, used, teamCounts, total, settings) }
  IN  IF ok = {} THEN 0 ELSE CHOOSE i \in ok : \A j \in ok : i <= j

FilledSlots(slots) == { i \in DOMAIN slots : slots[i] # NoPlayer }

RECURSIVE LuProjected(_, _)
LuProjected(slots, settings) ==
  IF slots = << >> THEN 0
  ELSE (IF Head(slots) = NoPlayer THEN 0 ELSE LuScore(Head(slots), settings))
       + LuProjected(Tail(slots), settings)

\* value_score in thousandths of a point per $1000: projected / (total / 1000),
\* truncated; 0 when total_salary is 0.
LuValueScore(projected, total) ==
  IF total > 0 THEN (projected * 1000000) \div total ELSE 0

LuInit ==
  /\ lu_players \in LuPools
  /\ lu_settings \in LuSettingsSet
  /\ lu_sorted = << >>
  /\ lu_slots = << >>
  /\ lu_used = {}
  /\ lu_teamCounts = << >>
  /\ lu_totalSalary = 0
  /\ lu_slotIdx = 0
  /\ lu_pc = "idle"
  /\ lu_lineup = NoLineup
  /\ lu_errors = << >>
  /\ ScoreIdle
  /\ RankIdle
  /\ BacktestIdle
  /\ LaterIdle

\* buildLineup, lines 98-114: fresh slots and bookkeeping, the density sort.
BuildStart ==
  /\ lu_pc = "idle"
  /\ lu_slots' = [i \in DOMAIN lu_settings.positions |-> NoPlayer]
  /\ lu_used' = {}
  /\ lu_teamCounts' = << >>
  /\ lu_totalSalary' = 0
  /\ lu_sorted' \in LuSortOutcomes(lu_players, lu_settings)
  /\ lu_slotIdx' = 1
  /\ lu_pc' = "fill"
  /\ UNCHANGED notLineup
  /\ UNCHANGED << lu_players, lu_settings, lu_lineup, lu_errors >>

\* One pass of the outer loop (lines 117-139): the whole inner scan.
FillSlotAssign ==
  /\ lu_pc = "fill"
  /\ lu_slotIdx <= Len(lu_slots)
  /\ LET k == LuPick(lu_sorted, lu_settings.positions[lu_slotIdx], lu_used,
                     lu_teamCounts, lu_totalSalary, lu_settings)
         p == lu_sorted[k]
     IN  /\ k # 0
         /\ lu_slots' = [lu_slots EXCEPT ![lu_slotIdx] = p]
         /\ lu_used' = lu_used \cup {p.player_id}
         /\ lu_teamCounts' =
              [t \in DOMAIN lu_teamCounts \cup {p.team_abbrev} |->
                 IF t = p.team_abbrev
                   THEN TeamCountOf(lu_teamCounts, t) + 1
                   ELSE lu_teamCounts[t]]
         /\ lu_totalSalary' = lu_totalSalary + p.salary
  /\ lu_slotIdx' = lu_slotIdx + 1
  /\ UNCHANGED notLineup
  /\ UNCHANGED << lu_players, lu_settings, lu_sorted, lu_pc, lu_lineup, lu_errors >>

\* The outer loop ended at the first slot nobody can fill.
FillSlotEmpty_Stops ==
  /\ lu_pc = "fill"
  /\ lu_slotIdx <= Len(lu_slots)
  /\ LuPick(lu_sorted, lu_settings.positions[lu_slotIdx], lu_used,
            lu_teamCounts, lu_totalSalary, lu_settings) = 0
  /\ lu_slotIdx' = Len(lu_slots) + 1
  /\ UNCHANGED notLineup
  /\ UNCHANGED << lu_players, lu_settings, lu_sorted, lu_slots, lu_used,
                  lu_teamCounts, lu_totalSalary, lu_pc, lu_lineup, lu_errors >>

FillSlotEmpty ==
  /\ lu_pc = "fill"
  /\ lu_slotIdx <= Len(lu_slots)
  /\ LuPick(lu_sorted, lu_settings.positions[lu_slotIdx], lu_used,
            lu_teamCounts, lu_totalSalary, lu_settings) = 0
  /\ lu_slotIdx' = lu_slotIdx + 1
  /\ UNCHANGED notLineup
  /\ UNCHANGED << lu_players, lu_settings, lu_sorted, lu_slots, lu_used,
                  lu_teamCounts, lu_totalSalary, lu_pc, lu_lineup, lu_errors >>

\* Lines 141-156: the totals and the returned Lineup.
BuildFinish ==
  /\ lu_pc = "fill"
  /\ lu_slotIdx > Len(lu_slots)
  /\ LET projected == LuProjected(lu_slots, lu_settings)
     IN  lu_lineup' = [slots |-> lu_slots,
                       total_salary |-> lu_totalSalary,
                       remaining_salary |-> lu_settings.salary_cap - lu_totalSalary,
                       projected_score |-> projected,
                       value_score |-> LuValueScore(projected, lu_totalSalary)]
  /\ lu_pc' = "built"
  /\ UNCHANGED notLineup
  /\ UNCHANGED << lu_players, lu_settings, lu_sorted, lu_slots, lu_used,
                  lu_teamCounts, lu_totalSalary, lu_slotIdx, lu_errors >>

\* teamCounts of validateLineup: teams in order of first appearance in the slots.
RECURSIVE TeamsInOrder(_)
TeamsInOrder(slots) ==
  IF slots = << >> THEN << >>
  ELSE LET rest == TeamsInOrder(SubSeq(slots, 1, Len(slots) - 1))
           last == slots[Len(slots)]
       IN  IF last = NoPlayer \/ last.team_abbrev \in Range(rest)
             THEN rest ELSE Append(rest, last.team_abbrev)

SlotTeamCount(slots, team) ==
  Cardinality({ i \in FilledSlots(slots) : slots[i].team_abbrev = team })

RECURSIVE TeamErrors(_, _, _)
TeamErrors(teams, slots, settings) ==
  IF teams = << >> THEN << >>
  ELSE LET c == SlotTeamCount(slots, Head(teams))
       IN  (IF c > settings.max_players_per_team
              THEN << [kind |-> "team", team |-> Head(teams), count |-> c] >>
              ELSE << >>)
           \o TeamErrors(Tail(teams), slots, settings)

\* validateLineup: the violation strings, each as a record of what it names.
validateLineup(lineup, settings) ==
  LET emptySlots == Len(lineup.slots) - Cardinality(FilledSlots(lineup.slots))
  IN  (IF emptySlots > 0
         THEN << [kind |-> "empty", count |-> emptySlots] >> ELSE << >>)
      \o (IF lineup.total_salary > settings.salary_cap
         THEN << [kind |-> "salary", over |-> lineup.total_salary - settings.salary_cap] >>
         ELSE << >>)
      \o TeamErrors(TeamsInOrder(lineup.slots), lineup.slots, settings)

Validate ==
  /\ lu_pc = "built"
  /\ lu_errors' = validateLineup(lu_lineup, lu_settings)
  /\ lu_pc' = "validated"
  /\ UNCHANGED notLineup
  /\ UNCHANGED << lu_players, lu_settings, lu_sorted, lu_slots, lu_used,
                  lu_teamCounts, lu_totalSalary, lu_slotIdx, lu_lineup >>

\* The optimizer's variables while another subsystem runs.
LineupIdle ==
  /\ lu_players = << >>
  /\ lu_settings = [salary_cap |-> 0]
  /\ lu_sorted = << >>
  /\ lu_slots = << >>
  /\ lu_used = {}
  /\ lu_teamCounts = << >>
  /\ lu_totalSalary = 0
  /\ lu_slotIdx = 0
  /\ lu_pc = "off"
  /\ lu_lineup = NoLineup
  /\ lu_errors = << >>

LuNext == BuildStart \/ FillSlotAssign \/ FillSlotEmpty \/ BuildFinish \/ Validate

SpecLineup == LuInit /\ [][LuNext]_vars

(* ---------------- Claims about the optimizer ---------------- *)

RECURSIVE SlotSalarySum(_)
SlotSalarySum(slots) ==
  IF slots = << >> THEN 0
  ELSE (IF Head(slots) = NoPlayer THEN 0 ELSE Head(slots).salary)
       + SlotSalarySum(Tail(slots))

WithinLimits(slots, total, settings) ==
  /\ total <= settings.salary_cap
  /\ SlotSalarySum(slots) = total
  /\ \A t \in LuTeams : SlotTeamCount(slots, t) <= settings.max_players_per_team

\* C1: for every pool and every settings record with positive salary_cap and
\* max_players_per_team, the salary spent never exceeds salary_cap and no team
\* holds more than max_players_per_team slots - after each slot is filled, and
\* in the Lineup that buildLineup returns.
C1_CapAndTeamLimit ==
  /\ lu_pc = "fill" => WithinLimits(lu_slots, lu_totalSalary, lu_settings)
  /\ lu_pc \in {"built", "validated"} =>
       WithinLimits(lu_lineup.slots, lu_lineup.total_salary, lu_settings)

\* A returned lineup in which both limits bind: the cap is spent exactly, a
\* team is at its limit, and a slot stayed empty although the pool had a
\* player for every slot.
C1_Witness ==
  /\ lu_pc = "built"
  /\ Len(lu_players) = Len(lu_lineup.slots)
  /\ lu_lineup.total_salary = lu_settings.salary_cap
  /\ \E t \in LuTeams :
       SlotTeamCount(lu_lineup.slots, t) = lu_settings.max_players_per_team
  /\ Cardinality(FilledSlots(lu_lineup.slots)) < Len(lu_lineup.slots)

\* C2: validateLineup on buildLineup's output (same settings) is empty exactly
\* when every slot holds a player; otherwise it is non-empty and its first
\* entry names the number of empty slots; it never holds a salary-cap or a
\* team-limit violation.
C2_ValidateBuilt ==
  lu_pc = "validated" =>
    LET empty == Len(lu_lineup.slots) - Cardinality(FilledSlots(lu_lineup.slots))
    IN  /\ (lu_errors = << >>) <=> (empty = 0)
        /\ empty > 0 =>
             /\ lu_errors # << >>
             /\ lu_errors[1] = [kind |-> "empty", count |-> empty]
        /\ \A i \in DOMAIN lu_errors : lu_errors[i].kind \notin {"salary", "team"}

\* A validated lineup with exactly one empty slot, reported as the only entry.
C2_Witness ==
  /\ lu_pc = "validated"
  /\ Cardinality(FilledSlots(lu_lineup.slots)) = Len(lu_lineup.slots) - 1
  /\ lu_errors = << [kind |-> "empty", count |-> 1] >>

-----------------------------------------------------------------------------
(* ============ Prediction variants: shared arithmetic and tables ========== *)
(* Units.  Inputs with one decimal in the data (usage_rate, mpg, spread,    *)
(* over_under, pra_avg, max_pra_last_10) are integers in tenths; the games  *)
(* of last_games_pra are whole PRA values.  Computed scores and PRA values  *)
(* are in thousandths ("milli"), multipliers in millionths ("micro").       *)
(* Divisions truncate, so a computed value is within a few thousandths of   *)
(* the float the source computes; values returned through                   *)
(* Math.round(x * 10) / 10 are in tenths.                                   *)

\* number | null: << >> is null (or undefined), << x >> the number x.
Null == << >>
Some(x) == << x >>
IsNull(v) == v = << >>
Val(v) == v[1]

Abs(x) == IF x < 0 THEN -x ELSE x

Clamp(x, lo, hi) == Min2(Max2(x, lo), hi)

\* Math.round(x * 10) / 10 of a value in thousandths, in tenths (half up).
Round10(xMilli) == (xMilli + 50) \div 100

\* Math.round(x) of a value in thousandths (half up).
Round1(xMilli) == (xMilli + 500) \div 1000

\* Math.sqrt, truncated to an integer: the r with r*r <= x < (r+1)*(r+1).
RECURSIVE ISqrtIn(_, _, _)
ISqrtIn(x, lo, hi) ==
  IF lo >= hi THEN lo
  ELSE LET mid == (lo + hi + 1) \div 2
       IN  IF mid * mid <= x THEN ISqrtIn(x, mid, hi) ELSE ISqrtIn(x, lo, mid - 1)

ISqrt(x) == ISqrtIn(x, 0, 46340)

RECURSIVE MaxSeq(_)
MaxSeq(s) == IF Len(s) = 1 THEN s[1] ELSE Max2(Head(s), MaxSeq(Tail(s)))

RECURSIVE WeightedSum(_)
\* lastGames.reduce((sum, pra, i) => sum + pra * (i + 1), 0)
WeightedSum(s) ==
  IF s = << >> THEN 0 ELSE WeightedSum(SubSeq(s, 1, Len(s) - 1)) + s[Len(s)] * Len(s)

RECURSIVE SumSquares(_)
SumSquares(s) == IF s = << >> THEN 0 ELSE Head(s) * Head(s) + SumSquares(Tail(s))

\* lastGames.slice(-3)
LastThree(s) == SubSeq(s, Max2(1, Len(s) - 2), Len(s))

\* lastGames.slice(0, k)
FirstK(s, k) == SubSeq(s, 1, Min2(k, Len(s)))

\* Mean of a non-empty history, in thousandths.
MeanMilli(s) == (SumSeq(s) * 1000) \div Len(s)

\* Math.sqrt(sum((val - avg)^2) / n) for n > 1, else `single`; in thousandths
\* (computed to a hundredth): sqrt(n * sum(val^2) - sum(val)^2) / n.
StdDevMilli(s, single) ==
  IF Len(s) > 1
    THEN (ISqrt((Len(s) * SumSquares(s) - SumSeq(s) * SumSeq(s)) * 10000) \div Len(s)) * 10
    ELSE single

\* last3Avg > avgPra * (pct / 100), with last3Avg and avgPra as exact fractions.
Last3Above(s, pct) ==
  SumSeq(LastThree(s)) * Len(s) * 100 > SumSeq(s) * pct * Len(LastThree(s))

Last3Below(s, pct) ==
  SumSeq(LastThree(s)) * Len(s) * 100 < SumSeq(s) * pct * Len(LastThree(s))

\* TEAM_DEFENSIVE_RATINGS[abbrev] || 112, in tenths of a point
TEAM_DEFENSIVE_RATINGS(abbrev) ==
  CASE abbrev = "CLE" -> 1052
    [] abbrev = "OKC" -> 1068
    [] abbrev = "BOS" -> 1075
    [] abbrev = "MEM" -> 1081
    [] abbrev = "HOU" -> 1085
    [] abbrev = "NYK" -> 1092
    [] abbrev = "LAC" -> 1098
    [] abbrev = "ORL" -> 1101
    [] abbrev = "MIA" -> 1105
    [] abbrev = "DEN" -> 1108
    [] abbrev = "MIN" -> 1110
    [] abbrev = "GSW" -> 1113
    [] abbrev = "LAL" -> 1115
    [] abbrev = "MIL" -> 1118
    [] abbrev = "SAC" -> 1120
    [] abbrev = "PHX" -> 1123
    [] abbrev = "DAL" -> 1125
    [] abbrev = "IND" -> 1128
    [] abbrev = "CHI" -> 1132
    [] abbrev = "BKN" -> 1135
    [] abbrev = "ATL" -> 1140
    [] abbrev = "TOR" -> 1145
    [] abbrev = "POR" -> 1150
    [] abbrev = "SAS" -> 1155
    [] abbrev = "DET" -> 1160
    [] abbrev = "PHI" -> 1162
    [] abbrev = "CHA" -> 1168
    [] abbrev = "UTA" -> 1172
    [] abbrev = "WAS" -> 1185
    [] abbrev = "NOP" -> 1188
    [] OTHER -> 1120

\* TEAM_PACE[abbrev] || 100, in tenths of a possession
TEAM_PACE(abbrev) ==
  CASE abbrev = "IND" -> 1035
    [] abbrev = "ATL" -> 1028
    [] abbrev = "MIL" -> 1022
    [] abbrev = "SAC" -> 1018
    [] abbrev = "NOP" -> 1015
    [] abbrev = "DEN" -> 1012
    [] abbrev = "UTA" -> 1010
    [] abbrev = "POR" -> 1008
    [] abbrev = "CHI" -> 1005
    [] abbrev = "PHX" -> 1003
    [] abbrev = "DAL" -> 1000
    [] abbrev = "LAL" -> 998
    [] abbrev = "BOS" -> 995
    [] abbrev = "CHA" -> 993
    [] abbrev = "MIN" -> 990
    [] abbrev = "TOR" -> 988
    [] abbrev = "WAS" -> 985
    [] abbrev = "BKN" -> 983
    [] abbrev = "GSW" -> 980
    [] abbrev = "DET" -> 978
    [] abbrev = "HOU" -> 975
    [] abbrev = "SAS" -> 972
    [] abbrev = "PHI" -> 970
    [] abbrev = "NYK" -> 968
    [] abbrev = "LAC" -> 965
    [] abbrev = "ORL" -> 962
    [] abbrev = "MIA" -> 960
    [] abbrev = "OKC" -> 958
    [] abbrev = "MEM" -> 955
    [] abbrev = "CLE" -> 952
    [] OTHER -> 1000

\* POSITION_DEFENSE_MODIFIER[position][abbrev] || 1.0 of the stats-first model, in hundredths
V1_POSITION_DEFENSE_MODIFIER(position, abbrev) ==
  CASE position = "PG" /\ abbrev = "WAS" -> 108
    [] position = "PG" /\ abbrev = "NOP" -> 107
    [] position = "PG" /\ abbrev = "CHA" -> 106
    [] position = "PG" /\ abbrev = "UTA" -> 105
    [] position = "PG" /\ abbrev = "CLE" -> 94
    [] position = "PG" /\ abbrev = "OKC" -> 95
    [] position = "SG" /\ abbrev = "WAS" -> 107
    [] position = "SG" /\ abbrev = "NOP" -> 106
    [] position = "SG" /\ abbrev = "DET" -> 105
    [] position = "SG" /\ abbrev = "UTA" -> 105
    [] position = "SG" /\ abbrev = "CLE" -> 94
    [] position = "SG" /\ abbrev = "BOS" -> 95
    [] position = "SF" /\ abbrev = "CHA" -> 108
    [] position = "SF" /\ abbrev = "WAS" -> 107
    [] position = "SF" /\ abbrev = "POR" -> 106
    [] position = "SF" /\ abbrev = "UTA" -> 105
    [] position = "SF" /\ abbrev = "OKC" -> 94
    [] position = "SF" /\ abbrev = "BOS" -> 95
    [] position = "PF" /\ abbrev = "CHA" -> 107
    [] position = "PF" /\ abbrev = "NOP" -> 106
    [] position = "PF" /\ abbrev = "DET" -> 105
    [] position = "PF" /\ abbrev = "WAS" -> 105
    [] position = "PF" /\ abbrev = "CLE" -> 94
    [] position = "PF" /\ abbrev = "OKC" -> 95
    [] position = "C" /\ abbrev = "CHA" -> 110
    [] position = "C" /\ abbrev = "WAS" -> 108
    [] position = "C" /\ abbrev = "NOP" -> 107
    [] position = "C" /\ abbrev = "UTA" -> 106
    [] position = "C" /\ abbrev = "CLE" -> 93
    [] position = "C" /\ abbrev = "OKC" -> 94
    [] OTHER -> 100

\* POSITION_DEFENSE_MODIFIER[pos][abbrev] || 1.0 of the context-first model, in hundredths
V2_POSITION_DEFENSE_MODIFIER(position, abbrev) ==
  CASE position = "PG" /\ abbrev = "WAS" -> 112
    [] position = "PG" /\ abbrev = "NOP" -> 110
    [] position = "PG" /\ abbrev = "CHA" -> 108
    [] position = "PG" /\ abbrev = "UTA" -> 107
    [] position = "PG" /\ abbrev = "DET" -> 105
    [] position = "PG" /\ abbrev = "CLE" -> 92
    [] position = "PG" /\ abbrev = "OKC" -> 93
    [] position = "PG" /\ abbrev = "BOS" -> 94
    [] position = "SG" /\ abbrev = "WAS" -> 110
    [] position = "SG" /\ abbrev = "NOP" -> 108
    [] position = "SG" /\ abbrev = "DET" -> 107
    [] position = "SG" /\ abbrev = "UTA" -> 106
    [] position = "SG" /\ abbrev = "CHA" -> 105
    [] position = "SG" /\ abbrev = "CLE" -> 92
    [] position = "SG" /\ abbrev = "BOS" -> 93
    [] position = "SG" /\ abbrev = "OKC" -> 94
    [] position = "SF" /\ abbrev = "CHA" -> 112
    [] position = "SF" /\ abbrev = "WAS" -> 110
    [] position = "SF" /\ abbrev = "POR" -> 108
    [] position = "SF" /\ abbrev = "UTA" -> 107
    [] position = "SF" /\ abbrev = "NOP" -> 105
    [] position = "SF" /\ abbrev = "OKC" -> 92
    [] position = "SF" /\ abbrev = "BOS" -> 93
    [] position = "SF" /\ abbrev = "CLE" -> 94
    [] position = "PF" /\ abbrev = "CHA" -> 110
    [] position = "PF" /\ abbrev = "NOP" -> 108
    [] position = "PF" /\ abbrev = "DET" -> 107
    [] position = "PF" /\ abbrev = "WAS" -> 106
    [] position = "PF" /\ abbrev = "UTA" -> 105
    [] position = "PF" /\ abbrev = "CLE" -> 92
    [] position = "PF" /\ abbrev = "OKC" -> 93
    [] position = "PF" /\ abbrev = "BOS" -> 94
    [] position = "C" /\ abbrev = "CHA" -> 115
    [] position = "C" /\ abbrev = "WAS" -> 112
    [] position = "C" /\ abbrev = "NOP" -> 110
    [] position = "C" /\ abbrev = "UTA" -> 108
    [] position = "C" /\ abbrev = "DET" -> 106
    [] position = "C" /\ abbrev = "CLE" -> 90
    [] position = "C" /\ abbrev = "OKC" -> 92
    [] position = "C" /\ abbrev = "BOS" -> 93
    [] OTHER -> 100

-----------------------------------------------------------------------------
(* ===== Stats-first model: prediction-model.ts lines 338-762 ("V1") ======= *)

\* player.usage_rate || 20 and player.mpg || 28, in tenths.
UsageOrDefault(player) == IF player.usage_rate = 0 THEN 200 ELSE player.usage_rate
MpgOrDefault(player) == IF player.mpg = 0 THEN 280 ELSE player.mpg

\* calculateRecentPraScore (lines 437-479).
V1_calculateRecentPraScore(player) ==
  LET lastGames == player.last_games_pra
  IN  IF Len(lastGames) = 0
        THEN [score |-> 0, avgPra |-> player.pra_avg * 100, stdDev |-> 0,
              maxPra |-> player.pra_avg * 100, hotStreak |-> FALSE, coldStreak |-> FALSE]
        ELSE
          LET totalWeight == (Len(lastGames) * (Len(lastGames) + 1)) \div 2
              \* (weightedAvg / 60) * 100
              normalized == (WeightedSum(lastGames) * 100000) \div (totalWeight * 60)
              hotStreak == Last3Above(lastGames, 110)
              coldStreak == Last3Below(lastGames, 90)
          IN  [score |-> Min2(normalized, 100000)
                         + (IF hotStreak THEN 5000 ELSE 0)
                         - (IF coldStreak THEN 3000 ELSE 0),
               avgPra |-> MeanMilli(lastGames),
               stdDev |-> StdDevMilli(lastGames, 0),
               maxPra |-> MaxSeq(lastGames) * 1000,
               hotStreak |-> hotStreak,
               coldStreak |-> coldStreak]

\* calculateCeilingFactor (lines 485-503).
V1_calculateCeilingFactor(player, avgPra, stdDev, maxPra) ==
  LET statCeiling == avgPra + (15 * stdDev) \div 10
      ceilingPra == (maxPra * 55 + player.max_pra_last_10 * 100 * 25 + statCeiling * 20) \div 100
      tdBonus == Min2(player.triple_doubles * 3, 15)
  IN  [score |-> Min2((ceilingPra * 100) \div 60 + tdBonus * 1000, 100000),
       ceilingPra |-> ceilingPra]

\* calculateVolumeScore (lines 509-526).
V1_calculateVolumeScore(player) ==
  LET usageRate == UsageOrDefault(player)
      mpg == MpgOrDefault(player)
      minutesScore == Min2((mpg * 6000) \div 36, 60000)
      usageScore == Min2((usageRate * 4000) \div 30, 40000)
      bonus == IF mpg >= 360 /\ usageRate >= 300 THEN 10000
               ELSE IF mpg >= 350 /\ usageRate >= 280 THEN 5000 ELSE 0
  IN  Min2(minutesScore + usageScore + bonus, 100000)

\* calculateMatchupScore (lines 533-596).
V1_calculateMatchupScore(player) ==
  LET oppDrtg == TEAM_DEFENSIVE_RATINGS(player.opponent_abbrev)
      oppPace == TEAM_PACE(player.opponent_abbrev)
      positionMod == V1_POSITION_DEFENSE_MODIFIER(player.position, player.opponent_abbrev)
      drtgPart == IF oppDrtg >= 1170 THEN 18
                  ELSE IF oppDrtg >= 1140 THEN 10
                  ELSE IF oppDrtg >= 1120 THEN 4
                  ELSE IF oppDrtg <= 1070 THEN -12
                  ELSE IF oppDrtg <= 1090 THEN -6 ELSE 0
      posPart == IF positionMod >= 106 THEN 8
                 ELSE IF positionMod <= 95 THEN -6 ELSE 0
      pacePart == IF oppPace >= 1020 THEN 10
                  ELSE IF oppPace >= 1000 THEN 5
                  ELSE IF oppPace <= 960 THEN -6 ELSE 0
  IN  [score |-> Clamp(50 + drtgPart + posPart + pacePart, 0, 100) * 1000,
       oppDrtg |-> oppDrtg, oppPace |-> oppPace, positionMod |-> positionMod]

\* calculateEnvironmentScore (lines 602-648).
V1_calculateEnvironmentScore(player) ==
  LET ou == player.over_under
      spread == player.spread
      ouPart == IF IsNull(ou) THEN 0
                ELSE IF Val(ou) >= 2350 THEN 18
                ELSE IF Val(ou) >= 2280 THEN 10
                ELSE IF Val(ou) < 2180 THEN -12 ELSE 0
      spreadPart == IF IsNull(spread) THEN 0
                    ELSE IF Abs(Val(spread)) >= 140 THEN -25
                    ELSE IF Abs(Val(spread)) >= 100 THEN -15
                    ELSE IF Abs(Val(spread)) <= 40 THEN 10 ELSE 0
      homePart == IF player.is_home THEN 5 ELSE 0
  IN  Clamp(50 + ouPart + spreadPart + homePart, 0, 100) * 1000

\* a * (b / den) for a, b in thousandths, without leaving 32 bits.
ScaleMilli(aMilli, bMilli, den) ==
  (aMilli * (bMilli \div 1000)) \div den + (aMilli * (bMilli % 1000)) \div (den * 1000)

\* a * (micro / 1000000) for a in thousandths, without leaving 32 bits.
ScaleMicro(aMilli, micro) ==
  (aMilli * (micro \div 1000)) \div 1000 + (aMilli * (micro % 1000)) \div 1000000

\* predictPlayer (lines 654-748): the numeric fields of the Prediction.
V1_predictPlayer(player) ==
  LET recent == V1_calculateRecentPraScore(player)
      ceiling == V1_calculateCeilingFactor(player, recent.avgPra, recent.stdDev, recent.maxPra)
      volumeScore == V1_calculateVolumeScore(player)
      matchup == V1_calculateMatchupScore(player)
      envScore == V1_calculateEnvironmentScore(player)
      totalCeilingScore ==
        (recent.score * 35 + ceiling.score * 25 + volumeScore * 15
           + matchup.score * 15 + envScore * 10) \div 100
      \* 1 + ((oppDrtg - 112) / 150) * positionMod, in millionths
      matchupMultiplier ==
        1000000 + ((matchup.oppDrtg - 1120) * matchup.positionMod * 20) \div 3
      raw == ScaleMilli(ScaleMicro(recent.avgPra, matchupMultiplier), totalCeilingScore, 60)
      projectedPra == Max2(raw, (recent.avgPra * 88) \div 100)
  IN  [player_id |-> player.player_id,
       player_name |-> player.player_name,
       projected_pra |-> Round10(projectedPra),
       ceiling_pra |-> Round10(ceiling.ceilingPra),
       ceiling_score |-> Round10(totalCeilingScore),
       component_scores |->
         [recent_pra |-> Round10(recent.score),
          ceiling_factor |-> Round10(ceiling.score),
          volume |-> Round10(volumeScore),
          matchup |-> Round10(matchup.score),
          environment |-> Round10(envScore)],
       stats |-> [avg_pra_last_10 |-> Round10(recent.avgPra), std_dev_pra |-> Round10(recent.stdDev)]]

-----------------------------------------------------------------------------
(* ===== Context-first model: unnamed/part_000 lines 1-309 ("V2") ========== *)
\* Multipliers are in hundredths; their running product is in millionths.

\* calculateBlowoutAdjustment (lines 50-69).
V2_calculateBlowoutAdjustment(spread) ==
  IF IsNull(spread) THEN [multiplier |-> 100, risk |-> "none"]
  ELSE IF Abs(Val(spread)) >= 140 THEN [multiplier |-> 70, risk |-> "high"]
  ELSE IF Abs(Val(spread)) >= 110 THEN [multiplier |-> 78, risk |-> "medium"]
  ELSE IF Abs(Val(spread)) >= 80 THEN [multiplier |-> 88, risk |-> "low"]
  ELSE IF Abs(Val(spread)) <= 40 THEN [multiplier |-> 108, risk |-> "none"]
  ELSE [multiplier |-> 100, risk |-> "none"]

\* calculateDefensiveAdjustment (lines 71-102): multiplier = base * positionBonus.
V2_calculateDefensiveAdjustment(oppAbbrev, position) ==
  LET drtg == TEAM_DEFENSIVE_RATINGS(oppAbbrev)
      diff == drtg - 1120
      positionBonus == V2_POSITION_DEFENSE_MODIFIER(position, oppAbbrev)
      baseMultiplier == IF diff >= 60 THEN 112
                        ELSE IF diff >= 30 THEN 106
                        ELSE IF diff <= -50 THEN 90
                        ELSE IF diff <= -30 THEN 94 ELSE 100
  IN  [base |-> baseMultiplier, positionBonus |-> positionBonus, drtg |-> drtg,
       multiplier |-> baseMultiplier * positionBonus]

\* calculatePaceAdjustment (lines 104-116).
V2_calculatePaceAdjustment(oppAbbrev) ==
  LET diff == TEAM_PACE(oppAbbrev) - 1000
  IN  IF diff >= 25 THEN 105
      ELSE IF diff >= 10 THEN 102
      ELSE IF diff <= -30 THEN 95
      ELSE IF diff <= -15 THEN 98 ELSE 100

\* calculateTotalAdjustment (lines 118-128).
V2_calculateTotalAdjustment(overUnder) ==
  IF IsNull(overUnder) THEN 100
  ELSE IF Val(overUnder) >= 2350 THEN 108
  ELSE IF Val(overUnder) >= 2280 THEN 104
  ELSE IF Val(overUnder) <= 2150 THEN 92
  ELSE IF Val(overUnder) <= 2200 THEN 96 ELSE 100

\* calculateUnderdogBoost (lines 130-138).
V2_calculateUnderdogBoost(spread, usageRate) ==
  IF IsNull(spread) THEN 100
  ELSE IF Val(spread) >= 60 /\ usageRate >= 280 THEN 106
  ELSE IF Val(spread) >= 30 /\ usageRate >= 260 THEN 103 ELSE 100

\* calculateBasePlayerScore (lines 140-173).
V2_calculateBasePlayerScore(player) ==
  LET lastGames == player.last_games_pra
      avgPra == IF Len(lastGames) > 0 THEN MeanMilli(lastGames) ELSE player.pra_avg * 100
      maxPra == IF Len(lastGames) > 0 THEN MaxSeq(lastGames) * 1000 ELSE player.pra_avg * 100
      hotStreak == Len(lastGames) > 0 /\ Last3Above(lastGames, 112)
      coldStreak == Len(lastGames) > 0 /\ Last3Below(lastGames, 88)
      score == Min2((avgPra * 60) \div 55, 60000)
               + (IF hotStreak THEN 10000 ELSE 0)
               - (IF coldStreak THEN 8000 ELSE 0)
               + (IF player.triple_doubles >= 5 THEN 12000
                  ELSE IF player.triple_doubles >= 2 THEN 6000 ELSE 0)
               + (IF player.usage_rate >= 300 THEN 8000
                  ELSE IF player.usage_rate >= 270 THEN 4000 ELSE 0)
  IN  [score |-> Min2(score, 85000), avgPra |-> avgPra,
       ceilingPra |-> (maxPra * 6 + avgPra * 4) \div 10,
       hotStreak |-> hotStreak, coldStreak |-> coldStreak]

\* The running product contextMultiplier of predictPlayerV2 (lines 187-197), in millionths.
V2_contextMultiplier(player) ==
  LET blowout == V2_calculateBlowoutAdjustment(player.spread)
      defense == V2_calculateDefensiveAdjustment(player.opponent_abbrev, player.position)
      base == V2_calculateBasePlayerScore(player)
      m1 == 10000 * blowout.multiplier
      m2 == (((m1 * defense.base) \div 100) * defense.positionBonus) \div 100
      m3 == (m2 * V2_calculatePaceAdjustment(player.opponent_abbrev)) \div 100
      m4 == (m3 * V2_calculateTotalAdjustment(player.over_under)) \div 100
      m5 == (m4 * V2_calculateUnderdogBoost(player.spread, player.usage_rate)) \div 100
      m6 == IF player.is_home THEN (m5 * 103) \div 100 ELSE m5
      m7 == IF base.hotStreak THEN (m6 * 105) \div 100 ELSE m6
  IN  IF base.coldStreak THEN (m7 * 95) \div 100 ELSE m7

\* d * 142.86 for d in millionths, in hundred-thousandths of a point.
V2_scaleContext(d) ==
  IF d <= 0 THEN 0 ELSE (d \div 1000) * 14286 + ((d % 1000) * 14286) \div 1000

V2_contextScore_NoOffset(player) ==
  Clamp(V2_scaleContext(V2_contextMultiplier(player)), 0, 10000000)

\* contextScore (line 200), in hundred-thousandths of a point.
V2_contextScore(player) ==
  Clamp(V2_scaleContext(V2_contextMultiplier(player) - 650000), 0, 10000000)

\* Math.round(x * 10) / 10 for x in hundred-thousandths, as tenths.
Round10Fine(x) == (x + 5000) \div 10000

\* predictPlayerV2 (lines 175-271): the numeric fields of the Prediction.
V2_predictPlayerV2(player) ==
  LET defense == V2_calculateDefensiveAdjustment(player.opponent_abbrev, player.position)
      pace == V2_calculatePaceAdjustment(player.opponent_abbrev)
      base == V2_calculateBasePlayerScore(player)
      contextMultiplier == V2_contextMultiplier(player)
      contextScore == V2_contextScore(player)
      \* in hundred-thousandths of a point
      totalCeilingScore == base.score * 25 + (contextScore * 75) \div 100
      projectedPra == Max2(ScaleMicro(base.avgPra, contextMultiplier), (base.avgPra * 65) \div 100)
      adjustedCeiling == ScaleMicro(base.ceilingPra, contextMultiplier)
      stdDev == StdDevMilli(player.last_games_pra, 5000)
  IN  [player_id |-> player.player_id,
       player_name |-> player.player_name,
       projected_pra |-> Round10(projectedPra),
       ceiling_pra |-> Round10(adjustedCeiling),
       ceiling_score |-> Round10Fine(totalCeilingScore),
       component_scores |->
         [recent_pra |-> Round10(base.score),
          ceiling_factor |-> Round10((base.ceilingPra * 100) \div 60),
          volume |-> Round10((UsageOrDefault(player) * 10000) \div 30),
          matchup |-> Round10(defense.multiplier * 5 + pace * 500 - 50000),
          environment |-> Round10Fine(contextScore)],
       stats |-> [avg_pra_last_10 |-> Round10(base.avgPra), std_dev_pra |-> Round10(stdDev)]]

-----------------------------------------------------------------------------
(* ===== Weighted model: prediction-model.ts lines 1-336 ("Wt") ============ *)

\* calculateRecentPraScore (lines 63-93).
Wt_calculateRecentPraScore(player) ==
  LET lastGames == player.last_games_pra
  IN  IF Len(lastGames) = 0
        THEN [score |-> 0, avgPra |-> player.pra_avg * 100, stdDev |-> 0,
              maxPra |-> player.pra_avg * 100]
        ELSE
          LET totalWeight == (Len(lastGames) * (Len(lastGames) + 1)) \div 2
          IN  [score |-> Min2((WeightedSum(lastGames) * 100000) \div (totalWeight * 70), 100000),
               avgPra |-> MeanMilli(lastGames),
               stdDev |-> StdDevMilli(lastGames, 0),
               maxPra |-> MaxSeq(lastGames) * 1000]

\* calculateCeilingFactor (lines 98-117).
Wt_calculateCeilingFactor(player, avgPra, stdDev, maxPra) ==
  LET statCeiling == avgPra + (15 * stdDev) \div 10
      ceilingPra == (maxPra * 50 + player.max_pra_last_10 * 100 * 30 + statCeiling * 20) \div 100
      tdBonus == Min2(player.triple_doubles * 2, 10)
  IN  [score |-> Min2((ceilingPra * 100) \div 65 + tdBonus * 1000, 100000),
       ceilingPra |-> ceilingPra]

\* calculateVolumeScore (lines 122-140): (usage / 25) * (mpg / 34) * 60 plus bonuses.
Wt_calculateVolumeScore(player) ==
  LET usageRate == UsageOrDefault(player)
      mpg == MpgOrDefault(player)
      base == (usageRate * mpg * 12) \div 17
      usageBonus == IF usageRate >= 300 THEN 15000
                    ELSE IF usageRate >= 280 THEN 8000 ELSE 0
      mpgBonus == IF mpg >= 360 THEN 10000
                  ELSE IF mpg >= 340 THEN 5000 ELSE 0
  IN  Min2(base + usageBonus + mpgBonus, 100000)

\* calculateMatchupScore (lines 145-168).
Wt_calculateMatchupScore(player) ==
  LET spread == player.spread
      spreadPart == IF IsNull(spread) THEN 0
                    ELSE IF Abs(Val(spread)) <= 40 THEN 15
                    ELSE IF Abs(Val(spread)) <= 70 THEN 10
                    ELSE IF Abs(Val(spread)) <= 100 THEN 5 ELSE -5
      awayDog == IF ~player.is_home /\ ~IsNull(spread) /\ Val(spread) > 0 THEN 5 ELSE 0
  IN  Clamp(50 + spreadPart + awayDog, 0, 100) * 1000

\* calculateEnvironmentScore (lines 173-220).
Wt_calculateEnvironmentScore(player) ==
  LET ou == player.over_under
      spread == player.spread
      ouPart == IF IsNull(ou) THEN 0
                ELSE IF Val(ou) >= 2350 THEN 20
                ELSE IF Val(ou) >= 2280 THEN 12
                ELSE IF Val(ou) >= 2200 THEN 5
                ELSE IF Val(ou) < 2150 THEN -10 ELSE 0
      spreadPart == IF IsNull(spread) THEN 0
                    ELSE IF Abs(Val(spread)) >= 120 THEN -20
                    ELSE IF Abs(Val(spread)) >= 80 THEN -10
                    ELSE IF Abs(Val(spread)) <= 40 THEN 10 ELSE 0
      homePart == IF player.is_home THEN 3 ELSE 0
  IN  Clamp(50 + ouPart + spreadPart + homePart, 0, 100) * 1000

\* predictPlayer (lines 225-319): the numeric fields of the Prediction.
Wt_predictPlayer(player) ==
  LET recent == Wt_calculateRecentPraScore(player)
      ceiling == Wt_calculateCeilingFactor(player, recent.avgPra, recent.stdDev, recent.maxPra)
      volumeScore == Wt_calculateVolumeScore(player)
      matchupScore == Wt_calculateMatchupScore(player)
      envScore == Wt_calculateEnvironmentScore(player)
      totalCeilingScore ==
        (recent.score * 30 + ceiling.score * 25 + volumeScore * 20
           + matchupScore * 15 + envScore * 10) \div 100
      projectedPra == Max2(ScaleMilli(recent.avgPra, totalCeilingScore, 70),
                           (recent.avgPra * 90) \div 100)
  IN  [player_id |-> player.player_id,
       player_name |-> player.player_name,
       projected_pra |-> Round10(projectedPra),
       ceiling_pra |-> Round10(ceiling.ceilingPra),
       ceiling_score |-> Round10(totalCeilingScore),
       component_scores |->
         [recent_pra |-> Round10(recent.score),
          ceiling_factor |-> Round10(ceiling.score),
          volume |-> Round10(volumeScore),
          matchup |-> Round10(matchupScore),
          environment |-> Round10(envScore)],
       stats |-> [avg_pra_last_10 |-> Round10(recent.avgPra), std_dev_pra |-> Round10(recent.stdDev)]]

-----------------------------------------------------------------------------
(* ===== Sigmoid model: unnamed/part_000 lines 311-814 ("ML") ============== *)
\* Feature scores are in millionths.  1 / (1 + exp(-z)) is tabulated for
\* z = -10, -9.95, ..., 10 and interpolated linearly in between; outside that
\* range the end values are used.

SigmoidTable ==
  <<
     45, 48, 50, 53, 55, 58, 61, 64, 68, 71,
     75, 79, 83, 87, 91, 96, 101, 106, 112, 117,
     123, 130, 136, 143, 151, 158, 167, 175, 184, 194,
     203, 214, 225, 236, 248, 261, 275, 289, 303, 319,
     335, 353, 371, 390, 410, 431, 453, 476, 500, 526,
     553, 581, 611, 642, 675, 710, 746, 784, 824, 867,
     911, 958, 1007, 1058, 1113, 1170, 1229, 1292, 1359, 1428,
     1501, 1578, 1659, 1744, 1833, 1927, 2025, 2129, 2238, 2352,
     2473, 2599, 2732, 2872, 3018, 3173, 3335, 3505, 3684, 3872,
     4070, 4278, 4496, 4726, 4967, 5220, 5486, 5766, 6060, 6369,
     6693, 7034, 7392, 7768, 8163, 8577, 9013, 9471, 9952, 10457,
     10987, 11544, 12128, 12742, 13387, 14064, 14774, 15520, 16302, 17124,
     17986, 18891, 19840, 20836, 21881, 22977, 24127, 25333, 26597, 27923,
     29312, 30769, 32295, 33895, 35571, 37327, 39166, 41091, 43107, 45217,
     47426, 49737, 52154, 54681, 57324, 60087, 62973, 65989, 69138, 72426,
     75858, 79439, 83173, 87066, 91123, 95349, 99750, 104331, 109097, 114052,
     119203, 124553, 130108, 135873, 141851, 148047, 154465, 161109, 167982, 175086,
     182426, 190002, 197816, 205870, 214165, 222700, 231475, 240489, 249740, 259225,
     268941, 278885, 289050, 299433, 310026, 320821, 331812, 342990, 354344, 365864,
     377541, 389361, 401312, 413382, 425557, 437823, 450166, 462570, 475021, 487503,
     500000, 512497, 524979, 537430, 549834, 562177, 574443, 586618, 598688, 610639,
     622459, 634136, 645656, 657010, 668188, 679179, 689974, 700567, 710950, 721115,
     731059, 740775, 750260, 759511, 768525, 777300, 785835, 794130, 802184, 809998,
     817574, 824914, 832018, 838891, 845535, 851953, 858149, 864127, 869892, 875447,
     880797, 885948, 890903, 895669, 900250, 904651, 908877, 912934, 916827, 920561,
     924142, 927574, 930862, 934011, 937027, 939913, 942676, 945319, 947846, 950263,
     952574, 954783, 956893, 958909, 960834, 962673, 964429, 966105, 967705, 969231,
     970688, 972077, 973403, 974667, 975873, 977023, 978119, 979164, 980160, 981109,
     982014, 982876, 983698, 984480, 985226, 985936, 986613, 987258, 987872, 988456,
     989013, 989543, 990048, 990529, 990987, 991423, 991837, 992232, 992608, 992966,
     993307, 993631, 993940, 994234, 994514, 994780, 995033, 995274, 995504, 995722,
     995930, 996128, 996316, 996495, 996665, 996827, 996982, 997128, 997268, 997401,
     997527, 997648, 997762, 997871, 997975, 998073, 998167, 998256, 998341, 998422,
     998499, 998572, 998641, 998708, 998771, 998830, 998887, 998942, 998993, 999042,
     999089, 999133, 999176, 999216, 999254, 999290, 999325, 999358, 999389, 999419,
     999447, 999474, 999500, 999524, 999547, 999569, 999590, 999610, 999629, 999647,
     999665, 999681, 999697, 999711, 999725, 999739, 999752, 999764, 999775, 999786,
     999797, 999806, 999816, 999825, 999833, 999842, 999849, 999857, 999864, 999870,
     999877, 999883, 999888, 999894, 999899, 999904, 999909, 999913, 999917, 999921,
     999925, 999929, 999932, 999936, 999939, 999942, 999945, 999947, 999950, 999952,
     999955
  >>

\* 1 / (1 + Math.exp(-z)) for z in millionths.
SigmoidOfZ(zMicro) ==
  LET z == Clamp(zMicro, -10000000, 10000000) + 10000000
      idx == z \div 50000
      frac == z % 50000
      lo == SigmoidTable[idx + 1]
      hi == IF idx + 2 <= Len(SigmoidTable) THEN SigmoidTable[idx + 2] ELSE lo
  IN  lo + ((hi - lo) * frac) \div 50000

\* sigmoid(x, midpoint, steepness) (lines 392-394): x and midpoint in
\* millionths, steepness in hundredths.  x - midpoint is cut to the range
\* where the table ends, which also keeps the product within 32 bits.
sigmoid(xMicro, midMicro, steepCenti) ==
  LET lim == 1000000000 \div steepCenti
      d == Clamp(xMicro - midMicro, -lim, lim)
  IN  SigmoidOfZ((steepCenti * d) \div 100)

\* a / b in millionths for 0 <= a and 0 < b < 2000000, by long division.
DivMicro(a, b) ==
  LET r1 == a % b
      r2 == (r1 * 1000) % b
  IN  (a \div b) * 1000000 + ((r1 * 1000) \div b) * 1000 + (r2 * 1000) \div b

\* a * b for a, b in millionths, kept within 32 bits.
MulMicro(a, b) == (a * (b \div 1000)) \div 1000 + (a * (b % 1000)) \div 1000000


\* Count of the entries of s satisfying pra * 1000 >= limitMilli.
RECURSIVE CountAtLeast(_, _)
CountAtLeast(s, limitMilli) ==
  IF s = << >> THEN 0
  ELSE (IF Head(s) * 1000 >= limitMilli THEN 1 ELSE 0) + CountAtLeast(Tail(s), limitMilli)

\* Math.max(0, 10 - x) squared, x in tenths.
TdGapSq(x10) == Max2(0, 100 - x10) * Max2(0, 100 - x10)

\* extractFeatures (lines 399-478).  pra_avg, pra_max and pra_std are in
\* thousandths, the scores in millionths.
ML_extractFeatures(player) ==
  LET lastGames == player.last_games_pra
      avg10 == IF player.avg_pra_last_10 = 0 THEN player.pra_avg ELSE player.avg_pra_last_10
      avgPra == avg10 * 100
      maxPra == IF player.max_pra_last_10 = 0 THEN avg10 * 120 ELSE player.max_pra_last_10 * 100
      stdDev == IF player.std_dev_pra = 0 THEN avg10 * 15 ELSE player.std_dev_pra * 100
      ceilingRatio == DivMicro(maxPra, Max2(avgPra, 1000))
      tdDistance == ISqrt((TdGapSq(player.ppg) + TdGapSq(player.rpg) + TdGapSq(player.apg)) * 10000)
      cv == DivMicro(stdDev, Max2(avgPra, 1000))
      ou == IF IsNull(player.over_under) \/ player.over_under = Some(0)
              THEN 2200 ELSE Val(player.over_under)
      absSpread == IF IsNull(player.spread) THEN 0 ELSE Abs(Val(player.spread))
      recent3 == SumSeq(FirstK(lastGames, 3))
      older3 == SumSeq(LastThree(lastGames))
      trend == IF recent3 >= older3
                 THEN DivMicro(recent3 - older3, Max2(older3, 3))
                 ELSE -DivMicro(older3 - recent3, Max2(older3, 3))
  IN  [pra_avg |-> avgPra,
       pra_max |-> maxPra,
       pra_std |-> stdDev,
       over_under |-> player.over_under,
       spread |-> player.spread,
       is_home |-> player.is_home,
       pra_ceiling_score |->
         MulMicro(sigmoid(ceilingRatio, 1150000, 1000), sigmoid(maxPra * 1000, 45000000, 10)),
       triple_double_score |->
         sigmoid(-tdDistance * 1000, -15000000, 30) + player.triple_doubles * 50000,
       consistency_score |-> sigmoid(-cv, -150000, 2000),
       usage_score |-> sigmoid(player.usage_rate * 100000, 28000000, 30),
       minutes_score |-> sigmoid(player.mpg * 100000, 34000000, 40),
       game_environment_score |-> sigmoid(ou * 100000, 228000000, 15),
       spread_score |-> sigmoid(-absSpread * 100000, -7000000, 40),
       recent_form_score |->
         IF Len(lastGames) >= 5 THEN sigmoid(trend, 0, 500) ELSE 500000,
       hot_streak_score |->
         IF Len(lastGames) >= 3
           THEN CountAtLeast(FirstK(lastGames, 5), (avg10 * 115)) * 200000
           ELSE 0]

\* calculateWinProbability (lines 483-526), in millionths.
ML_calculateWinProbability(features) ==
  LET praBase == sigmoid(features.pra_avg * 1000, 48000000, 15)
      featureScore ==
        (praBase * 15 + features.pra_ceiling_score * 10
           + features.triple_double_score * 8 + features.consistency_score * 7
           + features.usage_score * 12 + features.minutes_score * 8
           + features.game_environment_score * 10 + features.spread_score * 8
           + features.recent_form_score * 6 + features.hot_streak_score * 4) \div 100
        + (IF features.is_home THEN 20000 ELSE 0)
      interactionBoost ==
        (IF features.usage_score > 700000 /\ features.minutes_score > 700000
           THEN 50000 ELSE 0)
        + (IF features.triple_double_score > 600000
               /\ features.game_environment_score > 600000 THEN 40000 ELSE 0)
        + (IF features.recent_form_score > 600000 /\ features.hot_streak_score > 400000
             THEN 30000 ELSE 0)
        + (IF features.spread_score > 700000 /\ features.usage_score > 600000
             THEN 30000 ELSE 0)
  IN  Min2(featureScore + interactionBoost, 350000)

\* calculateExpectedPRA (lines 531-556), in thousandths.
ML_calculateExpectedPRA(features) ==
  LET ouAdjust == IF IsNull(features.over_under) \/ features.over_under = Some(0)
                    THEN 0 ELSE (Val(features.over_under) - 2200) * 8
      spreadAdjust == IF IsNull(features.spread) THEN 0
                      ELSE (features.spread_score * 3) \div 1000 - 1500
      expectedPRA == features.pra_avg + ouAdjust + spreadAdjust
                     + ((features.recent_form_score - 500000) * 4) \div 1000
                     + (features.hot_streak_score * 2) \div 1000
  IN  Max2(expectedPRA, (features.pra_avg * 85) \div 100)

\* calculateCeilingPRA (lines 561-580), in thousandths.
ML_calculateCeilingPRA(features) ==
  LET c1 == IF features.game_environment_score > 700000
              THEN (features.pra_max * 105) \div 100 ELSE features.pra_max
      c2 == IF features.spread_score > 700000 THEN (c1 * 103) \div 100 ELSE c1
  IN  IF features.triple_double_score > 600000 THEN c2 + 3000 ELSE c2

\* Math.round(score * 100) for a score in millionths, as tenths of a point.
RoundPct(micro) == ((micro + 5000) \div 10000) * 10

\* predictPlayerV2 (lines 664-725): the numeric fields of the Prediction.
ML_predictPlayerV2(player) ==
  LET features == ML_extractFeatures(player)
      winProbability == ML_calculateWinProbability(features)
      ceilingScore == winProbability * 285
  IN  [player_id |-> player.player_id,
       player_name |-> player.player_name,
       projected_pra |-> Round10(ML_calculateExpectedPRA(features)),
       ceiling_pra |-> Round10(ML_calculateCeilingPRA(features)),
       ceiling_score |-> (ceilingScore + 50000) \div 100000,
       component_scores |->
         [recent_pra |-> RoundPct(sigmoid(features.pra_avg * 1000, 48000000, 15)),
          ceiling_factor |-> RoundPct(features.pra_ceiling_score),
          volume |-> RoundPct((features.usage_score * 6 + features.minutes_score * 4) \div 10),
          matchup |-> RoundPct(features.spread_score),
          environment |-> RoundPct(features.game_environment_score)],
       stats |-> [avg_pra_last_10 |-> Round10(features.pra_avg), std_dev_pra |-> Round10(features.pra_std)]]

-----------------------------------------------------------------------------
(* ===== Two-model scorer: scoring.ts lines 19-120, injuries.ts 122-136 ==== *)
\* stats_score and context_score are in thousandths of a point; v1_score and
\* v2_score, which weigh them by 0.75 / 0.25, are in hundred-thousandths.

\* p.injury_status || 'HEALTHY' (scoring.ts lines 23 and 43).
InjuryStatusOf(p) ==
  IF "injury_status" \in DOMAIN p THEN p.injury_status ELSE "HEALTHY"

\* getInjuryScoreAdjustment with a DOUBTFUL penalty of the size of the
\* QUESTIONABLE and PROBABLE ones.
getInjuryScoreAdjustment_SmallDoubtful(status) ==
  CASE status = "OUT" -> -1000
    [] status = "DOUBTFUL" -> -50
    [] status = "QUESTIONABLE" -> -15
    [] status = "PROBABLE" -> -3
    [] OTHER -> 0

\* getInjuryScoreAdjustment (injuries.ts lines 122-136), in points.
getInjuryScoreAdjustment(status) ==
  CASE status = "OUT" -> -1000
    [] status = "DOUBTFUL" -> -500
    [] status = "QUESTIONABLE" -> -15
    [] status = "PROBABLE" -> -3
    [] OTHER -> 0

\* calculateStatsScore (lines 59-71); fgp is in thousandths.
calculateStatsScore(p) ==
  p.ppg * 250 + p.rpg * 120 + p.apg * 100
    + (IF p.fgp > 500 THEN 5000 ELSE 0) + (IF p.fgp > 550 THEN 5000 ELSE 0)

\* calculateContextScore (lines 73-120).
calculateContextScore(p) ==
  50000
    + (p.opp_def_rating - 1100) * 150
    + (p.pace - 990) * 120
    + (IF p.is_home THEN 3000 ELSE 0)
    - (IF p.is_b2b THEN 8000 ELSE 0)
    + (IF p.opponent_b2b THEN 6000 ELSE 0)
    + (IF IsNull(p.spread) THEN 0
       ELSE IF Val(p.spread) < -50 THEN 4000
       ELSE IF Val(p.spread) < 0 THEN 2000
       ELSE IF Val(p.spread) > 50 THEN -3000 ELSE 0)
    + (IF IsNull(p.over_under) THEN 0
       ELSE IF Val(p.over_under) > 2300 THEN 6000
       ELSE IF Val(p.over_under) > 2200 THEN 3000
       ELSE IF Val(p.over_under) < 2100 THEN -3000 ELSE 0)

\* { ...p, k1: v1, ... }: the fields of `over` replace or extend those of p.
Spread(p, over) == over @@ p

\* One element of scorePlayersV1 (lines 19-37).
scorePlayerV1(p) ==
  LET statsScore == calculateStatsScore(p)
      contextScore == calculateContextScore(p)
      injuryAdj == getInjuryScoreAdjustment(InjuryStatusOf(p))
  IN  Spread(p, [v1_score |-> statsScore * 75 + contextScore * 25 + injuryAdj * 100000,
                 v2_score |-> 0,
                 stats_score |-> statsScore,
                 context_score |-> contextScore,
                 injury_adjustment |-> injuryAdj])

\* One element of scorePlayersV2 (lines 39-57).
scorePlayerV2(p) ==
  LET statsScore == calculateStatsScore(p)
      contextScore == calculateContextScore(p)
      injuryAdj == getInjuryScoreAdjustment(InjuryStatusOf(p))
  IN  Spread(p, [v1_score |-> 0,
                 v2_score |-> statsScore * 25 + contextScore * 75 + injuryAdj * 100000,
                 stats_score |-> statsScore,
                 context_score |-> contextScore,
                 injury_adjustment |-> injuryAdj])

scorePlayersV1(players) == [i \in DOMAIN players |-> scorePlayerV1(players[i])]
scorePlayersV2(players) == [i \in DOMAIN players |-> scorePlayerV2(players[i])]

-----------------------------------------------------------------------------
(* ===== The scoring functions applied to one player record ================ *)

\* At most this many calls are recorded for one player.
MaxRuns == 2

\* Histories (last_games_pra, oldest first, whole PRA): the steady star, a
\* short cold run, a hot finish, and no games at all.
ScHistories ==
  { << 55, 52, 58, 48, 62, 51, 54, 50, 57, 53 >>,
    << 10, 0, 0, 0 >>,
    << 45, 45, 45, 45, 45, 45, 45, 70, 70, 70 >>,
    << >> }

\* Season lines: ppg, rpg, apg, usage_rate, mpg in tenths; triple_doubles.
ScProfiles ==
  { [ppg |-> 300, rpg |-> 120, apg |-> 120, usage_rate |-> 325, mpg |-> 372,
     triple_doubles |-> 6],
    [ppg |-> 120, rpg |-> 45, apg |-> 30, usage_rate |-> 200, mpg |-> 280,
     triple_doubles |-> 0] }

ScOpponents == {"UTA", "NOP", "CLE", "IND", "XXX"}
ScPositions == {"PG", "C"}
ScSpreads == {Null, Some(-145), Some(-25), Some(65), Some(145)}
ScOverUnders == {Null, Some(2120), Some(2360)}

\* The prediction-type EnhancedPlayerData (espn-data.ts lines 440-495) with
\* the derived fields computed as the loader does (espn-data.ts lines 743-781).
MkPredPlayer(prof, hist, opp, pos, home, spread, ou) ==
  LET praAvg == prof.ppg + prof.rpg + prof.apg
  IN  [player_id |-> "p1",
       player_name |-> "Player One",
       position |-> pos,
       opponent_abbrev |-> opp,
       is_home |-> home,
       spread |-> spread,
       over_under |-> ou,
       ppg |-> prof.ppg, rpg |-> prof.rpg, apg |-> prof.apg,
       mpg |-> prof.mpg,
       usage_rate |-> prof.usage_rate,
       triple_doubles |-> prof.triple_doubles,
       pra_avg |-> praAvg,
       last_games_pra |-> hist,
       avg_pra_last_10 |-> IF Len(hist) > 0 THEN Round10(MeanMilli(hist)) ELSE praAvg,
       max_pra_last_10 |-> IF Len(hist) > 0 THEN MaxSeq(hist) * 10
                           ELSE ((praAvg * 13 + 50) \div 100) * 10,
       std_dev_pra |-> IF Len(hist) > 1 THEN Round10(StdDevMilli(hist, 0))
                       ELSE (praAvg * 15 + 50) \div 100]

ScPredPlayers ==
  { MkPredPlayer(prof, hist, opp, pos, home, spread, ou) :
      prof \in ScProfiles, hist \in ScHistories, opp \in ScOpponents,
      pos \in ScPositions, home \in BOOLEAN, spread \in ScSpreads,
      ou \in ScOverUnders }

\* Stat lines of the scoring-type record: ppg, rpg, apg in tenths.
ScStatLines ==
  { [ppg |-> 300, rpg |-> 120, apg |-> 120],
    [ppg |-> 340, rpg |-> 100, apg |-> 100],
    [ppg |-> 120, rpg |-> 45, apg |-> 30] }
ScFgps == {450, 560}
ScMatchups == { [opp_def_rating |-> 1170, pace |-> 1035],
                [opp_def_rating |-> 1052, pace |-> 960] }
ScRest == { [is_b2b |-> FALSE, opponent_b2b |-> FALSE],
            [is_b2b |-> TRUE, opponent_b2b |-> FALSE],
            [is_b2b |-> FALSE, opponent_b2b |-> TRUE] }
ScInjuries == {"HEALTHY", "QUESTIONABLE"}

\* The scoring-type EnhancedPlayerData (espn-data.ts lines 16-50).
MkScoringPlayer(line, fgp, m, rest, home, spread, ou, injury) ==
  [player_id |-> "p1",
   name |-> "Player One",
   ppg |-> line.ppg, rpg |-> line.rpg, apg |-> line.apg,
   fgp |-> fgp,
   opp_def_rating |-> m.opp_def_rating,
   pace |-> m.pace,
   is_home |-> home,
   is_b2b |-> rest.is_b2b,
   opponent_b2b |-> rest.opponent_b2b,
   spread |-> spread,
   over_under |-> ou,
   injury_status |-> injury]

ScScoringPlayers ==
  { MkScoringPlayer(line, fgp, m, rest, home, spread, ou, injury) :
      line \in ScStatLines, fgp \in ScFgps, m \in ScMatchups, rest \in ScRest,
      home \in BOOLEAN, spread \in ScSpreads, ou \in ScOverUnders,
      injury \in ScInjuries }

IsPredPlayer(p) == "player_name" \in DOMAIN p
IsScoringPlayer(p) == "name" \in DOMAIN p

ScInit ==
  /\ sc_player \in ScPredPlayers \cup ScScoringPlayers
  /\ sc_runs = << >>
  /\ LineupIdle
  /\ RankIdle
  /\ BacktestIdle
  /\ LaterIdle

\* One recorded call of fn on the current record; once the line has moved,
\* the function called before is the one called again.
ScCall(fn, output) ==
  /\ Len(sc_runs) < MaxRuns
  /\ \A i \in DOMAIN sc_runs : sc_runs[i].input = sc_player \/ sc_runs[i].fn = fn
  /\ sc_runs' = Append(sc_runs, [fn |-> fn, input |-> sc_player, output |-> output])
  /\ UNCHANGED sc_player
  /\ UNCHANGED notScore

PredictWt == IsPredPlayer(sc_player) /\ ScCall("wt", Wt_predictPlayer(sc_player))
PredictV1 == IsPredPlayer(sc_player) /\ ScCall("v1", V1_predictPlayer(sc_player))
PredictV2 == IsPredPlayer(sc_player) /\ ScCall("v2", V2_predictPlayerV2(sc_player))
PredictML == IsPredPlayer(sc_player) /\ ScCall("ml", ML_predictPlayerV2(sc_player))
ScoreV1 == IsScoringPlayer(sc_player) /\ ScCall("s1", scorePlayersV1(<< sc_player >>)[1])
ScoreV2 == IsScoringPlayer(sc_player) /\ ScCall("s2", scorePlayersV2(<< sc_player >>)[1])

\* The betting line of the player's game changes between two calls; every
\* other field of the record stays as it was.
SpreadMoves ==
  /\ Len(sc_runs) = 1
  /\ sc_runs[1].input = sc_player
  /\ \E s \in ScSpreads :
       /\ s # sc_player.spread
       /\ sc_player' = [sc_player EXCEPT !.spread = s]
  /\ UNCHANGED sc_runs
  /\ UNCHANGED notScore

ScNext ==
  PredictWt \/ PredictV1 \/ PredictV2 \/ PredictML \/ ScoreV1 \/ ScoreV2 \/ SpreadMoves

SpecScore == ScInit /\ [][ScNext]_vars


(* ---------------- Claims about the scoring functions ---------------- *)

WeightedFns == {"wt", "v1", "v2"}
PredictFns == {"wt", "v1", "v2", "ml"}

\* A score in tenths of a point lies in [0, 100].
InScoreRange(x10) == 0 <= x10 /\ x10 <= 1000

\* C6: every component score and the composite ceiling_score returned by a
\* weighted variant's predictPlayer / predictPlayerV2 lies in [0, 100].
C6_ScoresInRange ==
  \A i \in DOMAIN sc_runs :
    sc_runs[i].fn \in WeightedFns =>
      LET o == sc_runs[i].output
      IN  /\ InScoreRange(o.component_scores.recent_pra)
          /\ InScoreRange(o.component_scores.ceiling_factor)
          /\ InScoreRange(o.component_scores.volume)
          /\ InScoreRange(o.component_scores.matchup)
          /\ InScoreRange(o.component_scores.environment)
          /\ InScoreRange(o.ceiling_score)

\* The mean of the recent history, or the season pra_avg when it is empty,
\* in thousandths.
AvgPraOf(player) ==
  IF Len(player.last_games_pra) > 0
    THEN MeanMilli(player.last_games_pra) ELSE player.pra_avg * 100

\* The floor fraction of each variant, in hundredths.
FloorPctOf(fn) ==
  CASE fn = "wt" -> 90 [] fn = "v1" -> 88 [] fn = "v2" -> 65 [] fn = "ml" -> 85

\* C7: for every variant the returned prediction satisfies
\* ceiling_pra >= projected_pra >= f * avg_pra, f being the variant's floor.
C7_CeilingAboveProjected ==
  \A i \in DOMAIN sc_runs :
    sc_runs[i].fn \in PredictFns =>
      LET o == sc_runs[i].output
      IN  /\ o.ceiling_pra >= o.projected_pra
          /\ o.projected_pra * 10000 >= FloorPctOf(sc_runs[i].fn) * AvgPraOf(sc_runs[i].input)

\* The two recorded calls are the same function on records that differ in
\* spread only, the first with |spread| >= 14 and the second with |spread| <= 4.
BlowoutToClose(fn) ==
  /\ Len(sc_runs) = 2
  /\ sc_runs[1].fn = fn /\ sc_runs[2].fn = fn
  /\ sc_runs[2].input = [sc_runs[1].input EXCEPT !.spread = sc_runs[2].input.spread]
  /\ ~IsNull(sc_runs[1].input.spread) /\ Abs(Val(sc_runs[1].input.spread)) >= 140
  /\ ~IsNull(sc_runs[2].input.spread) /\ Abs(Val(sc_runs[2].input.spread)) <= 40

\* C8: for a context-first variant, moving spread from a large magnitude to a
\* near-zero value with every other field fixed strictly increases the context
\* sub-score (environment of predictPlayerV2, context_score of scorePlayersV2).
C8_CloseGameRaisesContext ==
  /\ BlowoutToClose("v2") =>
       sc_runs[2].output.component_scores.environment
         > sc_runs[1].output.component_scores.environment
  /\ BlowoutToClose("s2") =>
       sc_runs[2].output.context_score > sc_runs[1].output.context_score

ReferenceHistory == << 55, 52, 58, 48, 62, 51, 54, 50, 57, 53 >>

\* The reference star of the prediction-type record in the blowout context.
IsReferencePred(p) ==
  /\ IsPredPlayer(p)
  /\ p.last_games_pra = ReferenceHistory
  /\ p.usage_rate = 325 /\ p.mpg = 372 /\ p.triple_doubles = 6
  /\ TEAM_DEFENSIVE_RATINGS(p.opponent_abbrev) >= 1170
  /\ TEAM_PACE(p.opponent_abbrev) >= 1000
  /\ p.spread = Some(-145) /\ p.over_under = Some(2120)

\* The same star as a scoring-type record: a 54-PRA line against a 117
\* defensive rating at 103.5 pace.
IsReferenceScoring(p) ==
  /\ IsScoringPlayer(p)
  /\ p.ppg + p.rpg + p.apg = 540
  /\ p.opp_def_rating = 1170 /\ p.pace = 1035
  /\ p.spread = Some(-145) /\ p.over_under = Some(2120)

\* The two recorded calls are fnA then fnB on one and the same record.
SameRecord(fnA, fnB) ==
  /\ Len(sc_runs) = 2
  /\ sc_runs[1].fn = fnA /\ sc_runs[2].fn = fnB
  /\ sc_runs[1].input = sc_runs[2].input

\* C9: for the reference player in the blowout context (spread -14.5,
\* over_under 212) the context-first composite is strictly lower than the
\* stats-first composite of the same record.
C9_ContextFirstLower ==
  /\ (SameRecord("v1", "v2") /\ IsReferencePred(sc_runs[1].input)) =>
       sc_runs[2].output.ceiling_score < sc_runs[1].output.ceiling_score
  /\ (SameRecord("v2", "v1") /\ IsReferencePred(sc_runs[1].input)) =>
       sc_runs[1].output.ceiling_score < sc_runs[2].output.ceiling_score
  /\ (SameRecord("s1", "s2") /\ IsReferenceScoring(sc_runs[1].input)) =>
       sc_runs[2].output.v2_score < sc_runs[1].output.v1_score
  /\ (SameRecord("s2", "s1") /\ IsReferenceScoring(sc_runs[1].input)) =>
       sc_runs[1].output.v2_score < sc_runs[2].output.v1_score

C9_Witness ==
  /\ SameRecord("v1", "v2")
  /\ IsReferencePred(sc_runs[1].input)
  /\ sc_runs[2].output.ceiling_score < sc_runs[1].output.ceiling_score

-----------------------------------------------------------------------------
(* ===== Ranking: scoring.ts lines 122-198, prediction-model.ts lines ====== *)
(* ===== 324-331 and 753-757, part_000 lines 273-307 and 730-806 =========== *)

\* Array.prototype.sort with the comparator (a, b) => b.key - a.key on a
\* sequence of [key, item] records: the place (1-based) element i ends up in.
\* The sort is stable, so an element goes behind the equal keys before it.
SortPlace_TiesReversed(s, i) ==
  Cardinality({ j \in DOMAIN s :
                  s[j].key > s[i].key \/ (s[j].key = s[i].key /\ j > i) }) + 1

SortPlace(s, i) ==
  Cardinality({ j \in DOMAIN s :
                  s[j].key > s[i].key \/ (s[j].key = s[i].key /\ j < i) }) + 1

\* The items of s in the sorted order.
SortDescByKey(s) ==
  LET listed == Listed(s)
      place == Listed([i \in DOMAIN listed |-> SortPlace(listed, i)])
  IN  Listed([n \in DOMAIN listed |->
                listed[CHOOSE i \in DOMAIN listed : place[i] = n].item])

\* predictions.sort((a, b) => b.ceiling_score - a.ceiling_score)
SortByCeilingScore(predictions) ==
  SortDescByKey([i \in DOMAIN predictions |->
                   [key |-> predictions[i].ceiling_score, item |-> predictions[i]]])

\* Array.prototype.findIndex, 1-based; 0 when nothing matches (-1 in the source).
FindIndex(s, Test(_)) ==
  LET hits == { i \in DOMAIN s : Test(s[i]) }
  IN  IF hits = {} THEN 0 ELSE CHOOSE i \in hits : \A j \in hits : i <= j

\* predictAllPlayers of the weighted model (prediction-model.ts lines 324-331).
Wt_predictAllPlayers(players) ==
  SortByCeilingScore([i \in DOMAIN players |-> Wt_predictPlayer(players[i])])

\* predictAllPlayers of the stats-first model (prediction-model.ts lines 753-757).
V1_predictAllPlayers(players) ==
  SortByCeilingScore([i \in DOMAIN players |-> V1_predictPlayer(players[i])])

\* predictAllPlayersV2 of the context-first model (part_000 lines 273-277).
V2_predictAllPlayersV2(players) ==
  SortByCeilingScore([i \in DOMAIN players |-> V2_predictPlayerV2(players[i])])

\* predictAllPlayersV2 of the sigmoid model (part_000 lines 730-745): the
\* players are sorted by the win probability itself, then predicted in that
\* order; the rank only feeds the confidence label.
ML_predictAllPlayersV2(players) ==
  LET playersWithProb ==
        [i \in DOMAIN players |->
           [key |-> ML_calculateWinProbability(ML_extractFeatures(players[i])),
            item |-> players[i]]]
      sorted == SortDescByKey(playersWithProb)
  IN  [n \in DOMAIN sorted |-> ML_predictPlayerV2(sorted[n])]

\* generateComparison (scoring.ts lines 166-198).  avg_rank_change is in
\* thousandths.  NoMover stands for null.
NoMover == [name |-> "null", change |-> 0]

\* p.rank_change || 0 read with the opposite sign.
RankChangeOf_Negated(p) == IF "rank_change" \in DOMAIN p THEN 0 - p.rank_change ELSE 0

\* p.rank_change || 0
RankChangeOf(p) == IF "rank_change" \in DOMAIN p THEN p.rank_change ELSE 0

\* generateComparison with the riser test change > 1 in place of change > 0.
generateComparison_RiserAboveOne(v1, v2) ==
  LET rankChanges ==
        Cardinality({ i \in DOMAIN v1 :
                        ~("rank_change" \in DOMAIN v1[i]) \/ v1[i].rank_change # 0 })
      totalChange == SumSeq([i \in DOMAIN v1 |-> Abs(RankChangeOf(v1[i]))])
      risers == { i \in DOMAIN v1 : RankChangeOf(v1[i]) > 1 }
      fallers == { i \in DOMAIN v1 : RankChangeOf(v1[i]) < 0 }
      \* the loop keeps the first player with the largest change
      riser == CHOOSE i \in risers :
                 \A j \in risers :
                   \/ RankChangeOf(v1[j]) < RankChangeOf(v1[i])
                   \/ (RankChangeOf(v1[j]) = RankChangeOf(v1[i]) /\ i <= j)
      faller == CHOOSE i \in fallers :
                  \A j \in fallers :
                    \/ RankChangeOf(v1[j]) > RankChangeOf(v1[i])
                    \/ (RankChangeOf(v1[j]) = RankChangeOf(v1[i]) /\ i <= j)
      v1Top5 == { v1[i].player_id : i \in 1..Min2(5, Len(v1)) }
      v2Top5 == { v2[i].player_id : i \in 1..Min2(5, Len(v2)) }
  IN  [total_players |-> Len(v1),
       rank_changes |-> rankChanges,
       biggest_riser |-> IF risers = {} THEN NoMover
                         ELSE [name |-> v1[riser].name, change |-> v1[riser].rank_change],
       biggest_faller |-> IF fallers = {} THEN NoMover
                          ELSE [name |-> v1[faller].name, change |-> v1[faller].rank_change],
       top5_overlap |-> Cardinality(v1Top5 \cap v2Top5),
       avg_rank_change |-> IF Len(v1) > 0 THEN (totalChange * 1000) \div Len(v1) ELSE 0]

generateComparison(v1, v2) ==
  LET rankChanges ==
        Cardinality({ i \in DOMAIN v1 :
                        ~("rank_change" \in DOMAIN v1[i]) \/ v1[i].rank_change # 0 })
      totalChange == SumSeq([i \in DOMAIN v1 |-> Abs(RankChangeOf(v1[i]))])
      risers == { i \in DOMAIN v1 : RankChangeOf(v1[i]) > 0 }
      fallers == { i \in DOMAIN v1 : RankChangeOf(v1[i]) < 0 }
      \* the loop keeps the first player with the largest change
      riser == CHOOSE i \in risers :
                 \A j \in risers :
                   \/ RankChangeOf(v1[j]) < RankChangeOf(v1[i])
                   \/ (RankChangeOf(v1[j]) = RankChangeOf(v1[i]) /\ i <= j)
      faller == CHOOSE i \in fallers :
                  \A j \in fallers :
                    \/ RankChangeOf(v1[j]) > RankChangeOf(v1[i])
                    \/ (RankChangeOf(v1[j]) = RankChangeOf(v1[i]) /\ i <= j)
      v1Top5 == { v1[i].player_id : i \in 1..Min2(5, Len(v1)) }
      v2Top5 == { v2[i].player_id : i \in 1..Min2(5, Len(v2)) }
  IN  [total_players |-> Len(v1),
       rank_changes |-> rankChanges,
       biggest_riser |-> IF risers = {} THEN NoMover
                         ELSE [name |-> v1[riser].name, change |-> v1[riser].rank_change],
       biggest_faller |-> IF fallers = {} THEN NoMover
                          ELSE [name |-> v1[faller].name, change |-> v1[faller].rank_change],
       top5_overlap |-> Cardinality(v1Top5 \cap v2Top5),
       avg_rank_change |-> IF Len(v1) > 0 THEN (totalChange * 1000) \div Len(v1) ELSE 0]

\* rankPlayers (scoring.ts lines 122-155).  v1Ranked and v2Ranked hold the
\* same merged objects, so every record of either list ends up with rank_v1,
\* rank_v2 and rank_change.
rankPlayers(players) ==
  LET v1Scored == scorePlayersV1(players)
      v2Scored == scorePlayersV2(players)
      merged == [i \in DOMAIN v1Scored |->
                   Spread(v1Scored[i], [v2_score |-> v2Scored[i].v2_score])]
      \* the orders, as positions in merged
      v1Order == SortDescByKey([i \in DOMAIN merged |->
                                  [key |-> merged[i].v1_score, item |-> i]])
      v2Order == SortDescByKey([i \in DOMAIN merged |->
                                  [key |-> merged[i].v2_score, item |-> i]])
      rankV1(i) == CHOOSE n \in DOMAIN v1Order : v1Order[n] = i
      rankV2(i) == CHOOSE n \in DOMAIN v2Order : v2Order[n] = i
      \* v2Ranked.find(v2 => v2.player_id === p.player_id)
      v2Found(i) == FindIndex(v2Order, LAMBDA k : merged[k].player_id = merged[i].player_id)
      ranked == [i \in DOMAIN merged |->
                   Spread(merged[i],
                          [rank_v1 |-> rankV1(i),
                           rank_v2 |-> rankV2(i),
                           rank_change |-> rankV1(i) - v2Found(i)])]
      v1Ranked == [n \in DOMAIN v1Order |-> ranked[v1Order[n]]]
      v2Ranked == [n \in DOMAIN v2Order |-> ranked[v2Order[n]]]
  IN  [v1 |-> v1Ranked, v2 |-> v2Ranked,
       comparison |-> generateComparison(v1Ranked, v2Ranked)]


\* compareModels of the context-first model (part_000 lines 279-307).  Ranks
\* in major_differences are 1-based as in the source, v2_rank 0 when the
\* player is missing from v2; agreement_rate is in thousandths.
V2_compareModels(v1, v2) ==
  LET v1Top5 == { v1[i].player_id : i \in 1..Min2(5, Len(v1)) }
      v2Top5 == { v2[i].player_id : i \in 1..Min2(5, Len(v2)) }
      overlap == Cardinality(v1Top5 \cap v2Top5)
      v2Rank(i) == FindIndex(v2, LAMBDA v : v.player_id = v1[i].player_id)
      far == SelectSeq([i \in 1..Min2(15, Len(v1)) |-> i],
                       LAMBDA i : Abs(i - v2Rank(i)) >= 5)
      differences == [k \in DOMAIN far |->
                        [player |-> v1[far[k]].player_name,
                         v1_rank |-> far[k],
                         v2_rank |-> v2Rank(far[k])]]
  IN  [agreement_rate |-> overlap * 200,
       top_pick_matches |->
         IF Len(v1) > 0 /\ Len(v2) > 0 THEN v1[1].player_id = v2[1].player_id
         ELSE Len(v1) = 0 /\ Len(v2) = 0,
       top_5_overlap |-> overlap,
       major_differences |-> FirstK(differences, 5)]

\* compareModels of the sigmoid model (part_000 lines 750-806): players are
\* matched by player_name.  agreementRate is in thousandths of a percent,
\* "NaN" when both lists are empty (0 / 0).
ML_compareModels(v1Predictions, v2Predictions) ==
  LET v1TopNames == [i \in 1..Min2(5, Len(v1Predictions)) |-> v1Predictions[i].player_name]
      v2TopNames == [i \in 1..Min2(5, Len(v2Predictions)) |-> v2Predictions[i].player_name]
      top5Overlap == Len(SelectSeq(v1TopNames, LAMBDA name : name \in Range(v2TopNames)))
      v2Rank(i) == FindIndex(v2Predictions,
                             LAMBDA p : p.player_name = v1Predictions[i].player_name)
      far == SelectSeq([i \in 1..Min2(20, Len(v1Predictions)) |-> i],
                       LAMBDA i : v2Rank(i) # 0 /\ Abs(i - v2Rank(i)) >= 5)
      majorDifferences == [k \in DOMAIN far |->
                             [player |-> v1Predictions[far[k]].player_name,
                              v1Rank |-> far[k],
                              v2Rank |-> v2Rank(far[k]),
                              diff |-> Abs(far[k] - v2Rank(far[k]))]]
      compareTop == Min2(10, Min2(Len(v1Predictions), Len(v2Predictions)))
      \* 1 - |i - v2Rank| / compareTop, summed, times compareTop
      totalAgreement ==
        SumSeq([i \in 1..compareTop |->
                  IF v2Rank(i) # 0 /\ v2Rank(i) <= compareTop
                    THEN compareTop - Abs(i - v2Rank(i)) ELSE 0])
  IN  [agreementRate |-> IF compareTop = 0 THEN "NaN"
                         ELSE (totalAgreement * 100000) \div (compareTop * compareTop),
       topPickMatch |->
         IF Len(v1Predictions) > 0 /\ Len(v2Predictions) > 0
           THEN v1Predictions[1].player_name = v2Predictions[1].player_name
           ELSE Len(v1Predictions) = 0 /\ Len(v2Predictions) = 0,
       top5Overlap |-> top5Overlap,
       majorDifferences |-> FirstK(majorDifferences, 5)]


-----------------------------------------------------------------------------
(* ===== The ranking functions applied to a list of players ================ *)

\* The longest list handed to a ranking function.
MaxList == 6

Named(p, id, name) == [p EXCEPT !.player_id = id, !.player_name = name]

StarLine == [ppg |-> 300, rpg |-> 120, apg |-> 120, usage_rate |-> 325,
             mpg |-> 372, triple_doubles |-> 6]
BenchLine(mpg) == [ppg |-> 120, rpg |-> 45, apg |-> 30, usage_rate |-> 200,
                   mpg |-> mpg, triple_doubles |-> 0]

\* Six prediction-type players of one slate: the reference star, two bench
\* players who differ in minutes only, two stars with the same line and
\* game, and a role player without games.
RkPredPool ==
  { Named(MkPredPlayer(StarLine, ReferenceHistory, "UTA", "PG", TRUE,
                       Some(-145), Some(2120)), "p1", "Star One"),
    Named(MkPredPlayer(BenchLine(180), << 10, 0, 0, 0 >>, "UTA", "PG", TRUE,
                       Some(-25), Some(2120)), "p2", "Bench Two"),
    Named(MkPredPlayer(BenchLine(200), << 10, 0, 0, 0 >>, "UTA", "PG", TRUE,
                       Some(-25), Some(2120)), "p3", "Bench Three"),
    Named(MkPredPlayer(StarLine, << 45, 45, 45, 45, 45, 45, 45, 70, 70, 70 >>,
                       "NOP", "C", FALSE, Some(-25), Some(2360)), "p4", "Star Four"),
    Named(MkPredPlayer(StarLine, << 45, 45, 45, 45, 45, 45, 45, 70, 70, 70 >>,
                       "NOP", "C", FALSE, Some(-25), Some(2360)), "p5", "Star Five"),
    Named(MkPredPlayer(BenchLine(280), << >>, "CLE", "C", TRUE,
                       Some(145), Some(2120)), "p6", "Role Six") }

NamedScoring(p, id, name) == [p EXCEPT !.player_id = id, !.name = name]
Rested == [is_b2b |-> FALSE, opponent_b2b |-> FALSE]
GoodGame == [opp_def_rating |-> 1170, pace |-> 1035]
BadGame == [opp_def_rating |-> 1052, pace |-> 960]

\* Six scoring-type players: stars and role players in a good and in a bad
\* game, two of them with the same line and game.
RkScoringPool ==
  { NamedScoring(MkScoringPlayer([ppg |-> 300, rpg |-> 120, apg |-> 120], 560, BadGame,
                   [is_b2b |-> TRUE, opponent_b2b |-> FALSE], FALSE,
                   Some(145), Some(2120), "HEALTHY"), "s1", "Star One"),
    NamedScoring(MkScoringPlayer([ppg |-> 340, rpg |-> 100, apg |-> 100], 450, GoodGame,
                   Rested, TRUE, Some(-25), Some(2360), "HEALTHY"), "s2", "Star Two"),
    NamedScoring(MkScoringPlayer([ppg |-> 120, rpg |-> 45, apg |-> 30], 450, GoodGame,
                   Rested, TRUE, Some(-25), Some(2360), "HEALTHY"), "s3", "Role Three"),
    NamedScoring(MkScoringPlayer([ppg |-> 120, rpg |-> 45, apg |-> 30], 450, GoodGame,
                   Rested, TRUE, Some(-25), Some(2360), "HEALTHY"), "s4", "Role Four"),
    NamedScoring(MkScoringPlayer([ppg |-> 300, rpg |-> 120, apg |-> 120], 560, GoodGame,
                   Rested, TRUE, Some(-25), Some(2360), "QUESTIONABLE"), "s5", "Star Five"),
    NamedScoring(MkScoringPlayer([ppg |-> 120, rpg |-> 45, apg |-> 30], 450, BadGame,
                   [is_b2b |-> TRUE, opponent_b2b |-> FALSE], FALSE,
                   Some(145), Some(2120), "HEALTHY"), "s6", "Role Six") }

\* The best line in the best game and the worst line in the worst game of the
\* realistic ranges (ppg 0-40, rpg 0-16, apg 0-12, defensive rating 105-118,
\* pace 95-104).
BestCase(injury) ==
  MkScoringPlayer([ppg |-> 400, rpg |-> 160, apg |-> 120], 600,
                  [opp_def_rating |-> 1180, pace |-> 1040],
                  [is_b2b |-> FALSE, opponent_b2b |-> TRUE], TRUE,
                  Some(-65), Some(2360), injury)
WorstCase(injury) ==
  MkScoringPlayer([ppg |-> 0, rpg |-> 0, apg |-> 0], 400,
                  [opp_def_rating |-> 1050, pace |-> 950],
                  [is_b2b |-> TRUE, opponent_b2b |-> FALSE], FALSE,
                  Some(65), Some(2050), injury)

\* The record without its injury_status field.
WithoutStatus(p) == [f \in DOMAIN p \ {"injury_status"} |-> p[f]]

\* Six scoring-type players, one of each injury status and one without any:
\* the sidelined ones with the best case, the others with the worst.
RkInjuryPool ==
  { NamedScoring(BestCase("OUT"), "i1", "Out One"),
    NamedScoring(BestCase("DOUBTFUL"), "i2", "Doubtful Two"),
    NamedScoring(WorstCase("QUESTIONABLE"), "i3", "Questionable Three"),
    NamedScoring(WorstCase("PROBABLE"), "i4", "Probable Four"),
    NamedScoring(WorstCase("HEALTHY"), "i5", "Healthy Five"),
    WithoutStatus(NamedScoring(WorstCase("HEALTHY"), "i6", "Unlisted Six")) }

\* The prediction pool with p6 carrying the name of p2: two players, one name.
RkNamesakePool ==
  { IF p.player_id = "p6" THEN Named(p, "p6", "Bench Two") ELSE p : p \in RkPredPool }

\* The lists of distinct players of a pool, at most MaxList long.
ListsOf(pool) ==
  { s \in SeqsUpTo(pool, Min2(MaxList, Cardinality(pool))) :
      \A i, j \in DOMAIN s : i # j => s[i] # s[j] }

IsPredList(players) == \A i \in DOMAIN players : IsPredPlayer(players[i])
IsScoringList(players) == \A i \in DOMAIN players : IsScoringPlayer(players[i])

RkInit ==
  /\ rk_input \in ListsOf(RkPredPool) \cup ListsOf(RkScoringPool)
                   \cup ListsOf(RkInjuryPool)
                   \cup { l \in ListsOf(RkNamesakePool) : Len(l) = Cardinality(RkNamesakePool) }
  /\ rk_out = [fn |-> "none"]
  /\ rk_again = [of |-> "none"]
  /\ rk_self = [fn |-> "none"]
  /\ LineupIdle
  /\ ScoreIdle
  /\ BacktestIdle
  /\ LaterIdle

\* A ranking function of the prediction models is called on the list.
RkPredictAll(fn, list) ==
  /\ rk_out.fn = "none"
  /\ IsPredList(rk_input)
  /\ rk_out' = [fn |-> fn, list |-> list]
  /\ UNCHANGED << rk_input, rk_again, rk_self >>
  /\ UNCHANGED notRank

PredictAllWt == RkPredictAll("wt", Wt_predictAllPlayers(rk_input))
PredictAllV1 == RkPredictAll("v1", V1_predictAllPlayers(rk_input))
PredictAllV2 == RkPredictAll("v2", V2_predictAllPlayersV2(rk_input))
PredictAllML == RkPredictAll("ml", ML_predictAllPlayersV2(rk_input))

\* rankPlayers is called on the list.
RankPlayers ==
  /\ rk_out.fn = "none"
  /\ IsScoringList(rk_input)
  /\ rk_out' = Spread(rankPlayers(rk_input), [fn |-> "rank"])
  /\ UNCHANGED << rk_input, rk_again, rk_self >>
  /\ UNCHANGED notRank

\* One of the two lists rankPlayers returned is handed to rankPlayers again.
RankAgain ==
  /\ rk_out.fn = "rank"
  /\ rk_again.of = "none"
  /\ rk_self.fn = "none"
  /\ \E of \in {"v1", "v2"} :
       rk_again' = Spread(rankPlayers(rk_out[of]), [of |-> of])
  /\ UNCHANGED << rk_input, rk_out, rk_self >>
  /\ UNCHANGED notRank

\* generateComparison on one returned list and itself.
CompareRanked ==
  /\ rk_out.fn = "rank"
  /\ rk_again.of = "none"
  /\ rk_self.fn = "none"
  /\ \E of \in {"v1", "v2"} :
       rk_self' = [fn |-> "generateComparison", of |-> of,
                   result |-> generateComparison(rk_out[of], rk_out[of])]
  /\ UNCHANGED << rk_input, rk_out, rk_again >>
  /\ UNCHANGED notRank

\* compareModels of the context-first model on a returned ranking and itself.
CompareModelsV2 ==
  /\ rk_out.fn \in {"wt", "v1", "v2", "ml"}
  /\ rk_self.fn = "none"
  /\ rk_self' = [fn |-> "V2_compareModels",
                 result |-> V2_compareModels(rk_out.list, rk_out.list)]
  /\ UNCHANGED << rk_input, rk_out, rk_again >>
  /\ UNCHANGED notRank

\* compareModels of the sigmoid model on a returned ranking and itself.
CompareModelsML ==
  /\ rk_out.fn \in {"wt", "v1", "v2", "ml"}
  /\ rk_self.fn = "none"
  /\ rk_self' = [fn |-> "ML_compareModels",
                 result |-> ML_compareModels(rk_out.list, rk_out.list)]
  /\ UNCHANGED << rk_input, rk_out, rk_again >>
  /\ UNCHANGED notRank

\* The predictions route (route.ts lines 422-424, 523-525): after
\* predictAllPlayers, predictAllPlayersV2 ranks the same players and
\* compareModels of its module gets both rankings.
CompareTwoModels ==
  /\ rk_out.fn \in {"wt", "v1"}
  /\ rk_self.fn = "none"
  /\ \E by \in {"v2", "ml"} :
       \E v2Predictions \in { IF by = "v2" THEN V2_predictAllPlayersV2(rk_input)
                               ELSE ML_predictAllPlayersV2(rk_input) } :
         rk_self' = [fn |-> "compareModels", by |-> by,
                     v1 |-> rk_out.list, v2 |-> v2Predictions,
                     top5 |-> IF by = "v2"
                                THEN V2_compareModels(rk_out.list, v2Predictions).top_5_overlap
                                ELSE ML_compareModels(rk_out.list, v2Predictions).top5Overlap]
  /\ UNCHANGED << rk_input, rk_out, rk_again >>
  /\ UNCHANGED notRank

RkNext ==
  \/ PredictAllWt \/ PredictAllV1 \/ PredictAllV2 \/ PredictAllML
  \/ RankPlayers \/ RankAgain \/ CompareRanked
  \/ CompareModelsV2 \/ CompareModelsML \/ CompareTwoModels

SpecRank == RkInit /\ [][RkNext]_vars


(* ---------------- Claims about the ranking functions ---------------- *)

\* What the model called fn returns for one player.
PredictionBy(fn, player) ==
  CASE fn = "wt" -> Wt_predictPlayer(player)
    [] fn = "v1" -> V1_predictPlayer(player)
    [] fn = "v2" -> V2_predictPlayerV2(player)
    [] fn = "ml" -> ML_predictPlayerV2(player)

\* Where the player with this id stands in the input list.
InputPlace(id) == CHOOSE i \in DOMAIN rk_input : rk_input[i].player_id = id

\* ids and keys are the player ids and composite scores of a returned list,
\* best first; scored holds [id, key] of every input, in input order.
IsStableRanking(ids, keys, scored) ==
  /\ Len(ids) = Len(scored)
  /\ \A i \in DOMAIN scored :
       \E n \in DOMAIN ids : ids[n] = scored[i].id /\ keys[n] = scored[i].key
  /\ \A n \in 1..(Len(ids) - 1) : keys[n] >= keys[n + 1]
  /\ \A m, n \in DOMAIN ids :
       (m < n /\ keys[m] = keys[n]) => InputPlace(ids[m]) < InputPlace(ids[n])

PredictionsRanked ==
  IsStableRanking(
    [n \in DOMAIN rk_out.list |-> rk_out.list[n].player_id],
    [n \in DOMAIN rk_out.list |-> rk_out.list[n].ceiling_score],
    [i \in DOMAIN rk_input |->
       [id |-> rk_input[i].player_id,
        key |-> PredictionBy(rk_out.fn, rk_input[i]).ceiling_score]])

ScoredRanked(list, field) ==
  IsStableRanking(
    [n \in DOMAIN list |-> list[n].player_id],
    [n \in DOMAIN list |-> list[n][field]],
    [i \in DOMAIN rk_input |->
       [id |-> rk_input[i].player_id,
        key |-> IF field = "v1_score" THEN scorePlayerV1(rk_input[i]).v1_score
                ELSE scorePlayerV2(rk_input[i]).v2_score]])

\* C3: every ranking function returns a permutation of the scored inputs in
\* non-increasing order of the composite score (ceiling_score for the
\* prediction models, v1_score and v2_score for the two lists of
\* rankPlayers), and players with equal composite score keep their input order.
C3_RankingSortedStable ==
  /\ rk_out.fn \in PredictFns => PredictionsRanked
  /\ rk_out.fn = "rank" =>
       /\ ScoredRanked(rk_out.v1, "v1_score")
       /\ ScoredRanked(rk_out.v2, "v2_score")

\* C4: rankPlayers applied to the v1 list it returned gives a v1 list with
\* the same players in the same places and the same rank_v1; likewise the
\* v2 list and rank_v2.
C4_RankIdempotent ==
  rk_again.of # "none" =>
    LET first == rk_out[rk_again.of]
        second == rk_again[rk_again.of]
        rank == IF rk_again.of = "v1" THEN "rank_v1" ELSE "rank_v2"
    IN  /\ Len(second) = Len(first)
        /\ \A n \in DOMAIN first :
             /\ second[n].player_id = first[n].player_id
             /\ second[n][rank] = first[n][rank]

\* rankPlayers was applied twice to a list that came unsorted, holds two
\* players with the same v1_score and is ordered differently by the two models.
C4_Witness ==
  /\ rk_again.of = "v1"
  /\ Len(rk_input) >= 4
  /\ \E n \in DOMAIN rk_input : rk_input[n].player_id # rk_out.v1[n].player_id
  /\ \E n \in 1..(Len(rk_out.v1) - 1) : rk_out.v1[n].v1_score = rk_out.v1[n + 1].v1_score
  /\ \E n \in DOMAIN rk_out.v1 : rk_out.v1[n].player_id # rk_out.v2[n].player_id
  /\ \A n \in DOMAIN rk_again.v1 : rk_again.v1[n].rank_v1 = n

\* C5: a ranking of N players compared with itself shows no rank change, no
\* biggest riser or faller, a top-5 overlap of min(5, N) and an average rank
\* change of 0, by generateComparison and by both compareModels.
C5_SelfComparisonIsNull ==
  /\ rk_self.fn = "generateComparison" =>
       /\ rk_self.result.rank_changes = 0
       /\ rk_self.result.biggest_riser = NoMover
       /\ rk_self.result.biggest_faller = NoMover
       /\ rk_self.result.top5_overlap = Min2(5, Len(rk_input))
       /\ rk_self.result.avg_rank_change = 0
  /\ rk_self.fn = "V2_compareModels" =>
       /\ rk_self.result.major_differences = << >>
       /\ rk_self.result.top_5_overlap = Min2(5, Len(rk_input))
  /\ rk_self.fn = "ML_compareModels" =>
       /\ rk_self.result.majorDifferences = << >>
       /\ rk_self.result.top5Overlap = Min2(5, Len(rk_input))

-----------------------------------------------------------------------------
(* ===== Backtest: backtest.ts lines 251-309, api/backtest/route.ts 12-99 == *)

\* A name is the sequence of its characters; "c-caron" and "c-acute" stand
\* for the two accented letters of the known winners' names.

\* "Kessler Edwards"
Name_KesslerEdwards ==
  << "K", "e", "s", "s", "l", "e", "r", " ", "E", "d", "w", "a", "r", "d",
     "s" >>

\* "Luka Dončić"
Name_LukaDoncic ==
  << "L", "u", "k", "a", " ", "D", "o", "n", "c-caron", "i", "c-acute" >>

\* "Nikola Jokić"
Name_NikolaJokic ==
  << "N", "i", "k", "o", "l", "a", " ", "J", "o", "k", "i", "c-acute" >>

\* "Giannis Antetokounmpo"
Name_GiannisAntetokounmpo ==
  << "G", "i", "a", "n", "n", "i", "s", " ", "A", "n", "t", "e", "t", "o",
     "k", "o", "u", "n", "m", "p", "o" >>

\* "Anthony Edwards"
Name_AnthonyEdwards ==
  << "A", "n", "t", "h", "o", "n", "y", " ", "E", "d", "w", "a", "r", "d",
     "s" >>

\* "Shai Gilgeous-Alexander"
Name_ShaiGilgeousAlexander ==
  << "S", "h", "a", "i", " ", "G", "i", "l", "g", "e", "o", "u", "s", "-",
     "A", "l", "e", "x", "a", "n", "d", "e", "r" >>

\* "Jayson Tatum"
Name_JaysonTatum ==
  << "J", "a", "y", "s", "o", "n", " ", "T", "a", "t", "u", "m" >>

\* "LeBron James"
Name_LeBronJames ==
  << "L", "e", "B", "r", "o", "n", " ", "J", "a", "m", "e", "s" >>

\* "Kevin Durant"
Name_KevinDurant ==
  << "K", "e", "v", "i", "n", " ", "D", "u", "r", "a", "n", "t" >>

\* "Tyrese Haliburton"
Name_TyreseHaliburton ==
  << "T", "y", "r", "e", "s", "e", " ", "H", "a", "l", "i", "b", "u", "r",
     "t", "o", "n" >>

\* "Nene"
Name_Nene ==
  << "N", "e", "n", "e" >>

\* "Lebron James", as a box score may spell it
Name_LebronJamesBoxScore ==
  << "L", "e", "b", "r", "o", "n", " ", "J", "a", "m", "e", "s" >>

\* "Victor Wembanyama"
Name_VictorWembanyama ==
  << "V", "i", "c", "t", "o", "r", " ", "W", "e", "m", "b", "a", "n", "y",
     "a", "m", "a" >>

\* String.prototype.toLowerCase on the letters the names use.
LowerOf(c) ==
  CASE c = "A" -> "a"
    [] c = "B" -> "b"
    [] c = "C" -> "c"
    [] c = "D" -> "d"
    [] c = "E" -> "e"
    [] c = "F" -> "f"
    [] c = "G" -> "g"
    [] c = "H" -> "h"
    [] c = "I" -> "i"
    [] c = "J" -> "j"
    [] c = "K" -> "k"
    [] c = "L" -> "l"
    [] c = "M" -> "m"
    [] c = "N" -> "n"
    [] c = "O" -> "o"
    [] c = "P" -> "p"
    [] c = "Q" -> "q"
    [] c = "R" -> "r"
    [] c = "S" -> "s"
    [] c = "T" -> "t"
    [] c = "U" -> "u"
    [] c = "V" -> "v"
    [] c = "W" -> "w"
    [] c = "X" -> "x"
    [] c = "Y" -> "y"
    [] c = "Z" -> "z"
    [] OTHER -> c

toLowerCase(name) == Listed([i \in DOMAIN name |-> LowerOf(name[i])])

\* The text `undefined` that includes() searches for when handed undefined.
UndefinedText ==
  << "u", "n", "d", "e", "f", "i", "n", "e", "d" >>

\* name.split(' ')[1] as includes() sees it: the characters between the first
\* and the second blank, or the text of undefined when there is no blank.
SecondWord(name) ==
  LET blanks == { i \in DOMAIN name : name[i] = " " }
      first == CHOOSE i \in blanks : \A j \in blanks : i <= j
      later == blanks \ {first}
      stop == IF later = {} THEN Len(name) + 1
              ELSE CHOOSE i \in later : \A j \in later : i <= j
  IN  IF blanks = {} THEN UndefinedText ELSE SubSeq(name, first + 1, stop - 1)

\* String.prototype.includes
Includes(text, part) ==
  \E i \in 0..(Len(text) - Len(part)) : SubSeq(text, i + 1, i + Len(part)) = part


\* KNOWN_WINNERS (route.ts lines 13-21), in the order Object.entries lists them.
KNOWN_WINNERS ==
  << [date |-> "2024-10-22", player |-> Name_LukaDoncic, pra |-> 64],
     [date |-> "2024-10-29", player |-> Name_TyreseHaliburton, pra |-> 54],
     [date |-> "2024-11-05", player |-> Name_NikolaJokic, pra |-> 58],
     [date |-> "2024-11-12", player |-> Name_GiannisAntetokounmpo, pra |-> 56],
     [date |-> "2024-11-19", player |-> Name_LukaDoncic, pra |-> 61],
     [date |-> "2024-11-26", player |-> Name_NikolaJokic, pra |-> 55],
     [date |-> "2024-12-03", player |-> Name_AnthonyEdwards, pra |-> 53] >>

\* The winner flags both backtests derive from the 1-based rank they found
\* for the actual winner, 0 when findIndex returned -1.
WinnerFlags(predictedRankOfWinner) ==
  [winner_correct |-> predictedRankOfWinner = 1,
   winner_in_top_3 |-> predictedRankOfWinner > 0 /\ predictedRankOfWinner <= 3,
   winner_in_top_5 |-> predictedRankOfWinner > 0 /\ predictedRankOfWinner <= 5,
   winner_in_top_10 |-> predictedRankOfWinner > 0 /\ predictedRankOfWinner <= 10,
   predicted_rank_of_winner |-> IF predictedRankOfWinner > 0
                                  THEN Some(predictedRankOfWinner) ELSE Null]

\* predictions[0]?.projected_pra || 0, in tenths.
TopProjectedPra(predictions) ==
  IF Len(predictions) > 0 THEN predictions[1].projected_pra ELSE 0

\* backtestDate (backtest.ts lines 251-309) once getAllPlayerResults has
\* answered with actualResults; "null" when there are no results.  PRA
\* differences are in tenths.
backtestDate(date, predictions, actualResults) ==
  IF Len(actualResults) = 0 THEN [fn |-> "backtestDate", returned |-> "null"]
  ELSE
    LET actualWinner == actualResults[1]
        predictedRankOfWinner ==
          FindIndex(predictions,
                    LAMBDA p : toLowerCase(p.player_name)
                                 = toLowerCase(actualWinner.player_name))
    IN  Spread(WinnerFlags(predictedRankOfWinner),
               [fn |-> "backtestDate",
                returned |-> "result",
                date |-> date,
                num_players_predicted |-> Len(predictions),
                actual_winner |-> actualWinner,
                actual_top_5 |-> FirstK(actualResults, 5),
                predicted_top_5 |-> FirstK(predictions, 5),
                predicted_pra |-> TopProjectedPra(predictions),
                actual_pra |-> actualWinner.pra,
                pra_difference |->
                  Abs(TopProjectedPra(predictions) - actualWinner.pra * 10)])

\* One BacktestResult of quickBacktest (route.ts lines 43-67), given the
\* rank findIndex came up with.
QuickResult(predictions, winner, predictedRank) ==
  Spread(WinnerFlags(predictedRank),
         [date |-> winner.date,
          num_games |-> 8,
          num_players_predicted |-> Len(predictions),
          actual_winner |->
            [player_name |-> winner.player,
             points |-> (winner.pra * 55 + 50) \div 100,
             rebounds |-> (winner.pra * 25 + 50) \div 100,
             assists |-> (winner.pra * 20 + 50) \div 100,
             pra |-> winner.pra,
             minutes |-> 38],
          predicted_top_5 |-> FirstK(predictions, 5),
          predicted_pra |-> TopProjectedPra(predictions),
          actual_pra |-> winner.pra,
          pra_difference |-> Abs(TopProjectedPra(predictions) - winner.pra * 10)])

\* quickBacktest (route.ts lines 33-99).  Rates are in thousandths of a
\* percent, avg_winner_rank in thousandths, avg_pra_difference in thousandths
\* of a PRA point.  The two sorts work in place, so `results` comes back
\* in the order the second sort leaves.
quickBacktest(predictions, knownWinners) ==
  LET lowered == Listed([i \in DOMAIN predictions |->
                           toLowerCase(predictions[i].player_name)])
      \* predictions.findIndex(...) + 1 for each known winner
      predictedRank ==
        Listed([d \in DOMAIN knownWinners |->
           LET winner == toLowerCase(knownWinners[d].player)
               surname == SecondWord(winner)
               hits == { i \in DOMAIN lowered :
                           \/ Includes(lowered[i], surname)
                           \/ Includes(winner, SecondWord(lowered[i])) }
           IN  IF hits = {} THEN 0 ELSE CHOOSE i \in hits : \A j \in hits : i <= j])
      total == Len(knownWinners)
      Count(limit) ==
        Cardinality({ d \in DOMAIN knownWinners :
                        predictedRank[d] > 0 /\ predictedRank[d] <= limit })
      ranked == { d \in DOMAIN knownWinners : predictedRank[d] > 0 }
      rankSum == SumSeq([d \in DOMAIN knownWinners |-> predictedRank[d]])
      differences == [d \in DOMAIN knownWinners |->
                        Abs(TopProjectedPra(predictions) - knownWinners[d].pra * 10)]
      \* results.sort((a, b) => (a.rank || 999) - (b.rank || 999)), as dates
      byBest == SortDescByKey([d \in DOMAIN knownWinners |->
                  [key |-> IF predictedRank[d] > 0 THEN -predictedRank[d] ELSE -999,
                   item |-> d]])
      \* results.sort((a, b) => (b.rank || 0) - (a.rank || 0)), as dates
      byWorst == SortDescByKey([n \in DOMAIN byBest |->
                   [key |-> predictedRank[byBest[n]], item |-> byBest[n]]])
      Result(d) == QuickResult(predictions, knownWinners[d], predictedRank[d])
  IN  [fn |-> "quickBacktest",
       dates_tested |-> total,
       total_games |-> total * 8,
       winner_hit_rate |-> (Count(1) * 100000) \div total,
       top_3_hit_rate |-> (Count(3) * 100000) \div total,
       top_5_hit_rate |-> (Count(5) * 100000) \div total,
       top_10_hit_rate |-> (Count(10) * 100000) \div total,
       avg_winner_rank |->
         IF ranked # {} THEN (rankSum * 1000) \div Cardinality(ranked) ELSE 0,
       avg_pra_difference |-> (SumSeq(differences) * 100) \div total,
       best_prediction |-> Result(byBest[1]),
       worst_prediction |-> Result(byWorst[1]),
       results |-> [n \in DOMAIN byWorst |-> Result(byWorst[n])]]

-----------------------------------------------------------------------------
(* ===== The backtests applied to a predicted ranking ====================== *)

\* A slate of players in one predicted order; projected_pra in tenths.
BtRoster ==
  << [player_id |-> "b1", player_name |-> Name_KesslerEdwards, projected_pra |-> 500],
     [player_id |-> "b2", player_name |-> Name_LukaDoncic, projected_pra |-> 480],
     [player_id |-> "b3", player_name |-> Name_NikolaJokic, projected_pra |-> 460],
     [player_id |-> "b4", player_name |-> Name_AnthonyEdwards, projected_pra |-> 440],
     [player_id |-> "b5", player_name |-> Name_GiannisAntetokounmpo, projected_pra |-> 420],
     [player_id |-> "b6", player_name |-> Name_ShaiGilgeousAlexander, projected_pra |-> 400],
     [player_id |-> "b7", player_name |-> Name_JaysonTatum, projected_pra |-> 380],
     [player_id |-> "b8", player_name |-> Name_LeBronJames, projected_pra |-> 360],
     [player_id |-> "b9", player_name |-> Name_KevinDurant, projected_pra |-> 340],
     [player_id |-> "b10", player_name |-> Name_TyreseHaliburton, projected_pra |-> 320],
     [player_id |-> "b11", player_name |-> Name_Nene, projected_pra |-> 300] >>

\* The members of s at the places in keep, in the order of s.
Pick(s, keep) ==
  LET Place(n) == CHOOSE i \in keep : Cardinality({ j \in keep : j <= i }) = n
  IN  [n \in 1..Cardinality(keep) |-> s[Place(n)]]

Flip(s) == [i \in DOMAIN s |-> s[Len(s) + 1 - i]]

\* The predicted rankings: any part of the slate, in its order or reversed.
BtPredictionLists ==
  LET parts == { Pick(BtRoster, keep) : keep \in SUBSET DOMAIN BtRoster }
  IN  parts \cup { Flip(s) : s \in parts }

\* What the box scores of the day can show, highest PRA first.
BtActualResults ==
  { << >>,
    << [player_id |-> "b4", player_name |-> Name_AnthonyEdwards, pra |-> 53],
       [player_id |-> "b2", player_name |-> Name_LukaDoncic, pra |-> 50] >>,
    << [player_id |-> "b8", player_name |-> Name_LebronJamesBoxScore, pra |-> 60],
       [player_id |-> "b4", player_name |-> Name_AnthonyEdwards, pra |-> 53] >>,
    << [player_id |-> "b12", player_name |-> Name_VictorWembanyama, pra |-> 62] >> }

BtInit ==
  /\ bt_predictions \in BtPredictionLists
  /\ bt_actual \in BtActualResults
  /\ bt_result = [fn |-> "none"]
  /\ bt_summary = [fn |-> "none"]
  /\ LineupIdle
  /\ ScoreIdle
  /\ RankIdle
  /\ LaterIdle

\* backtestDate is run on the ranking and the day's results.
BacktestDate ==
  /\ bt_result.fn = "none"
  /\ bt_summary.fn = "none"
  /\ bt_result' = backtestDate("2024-12-03", bt_predictions, bt_actual)
  /\ UNCHANGED << bt_predictions, bt_actual, bt_summary >>
  /\ UNCHANGED notBacktest

\* The backtest route runs quickBacktest on the ranking.
QuickBacktest ==
  /\ bt_result.fn = "none"
  /\ bt_summary.fn = "none"
  /\ bt_summary' = quickBacktest(bt_predictions, KNOWN_WINNERS)
  /\ UNCHANGED << bt_predictions, bt_actual, bt_result >>
  /\ UNCHANGED notBacktest

BtNext == BacktestDate \/ QuickBacktest

SpecBacktest == BtInit /\ [][BtNext]_vars


(* ---------------- Claims about the backtests ---------------- *)

\* The 1-based place of the named player in the predicted ranking, 0 when
\* the player is not in it.
PlaceInPredictions(name) ==
  FindIndex(bt_predictions,
            LAMBDA p : toLowerCase(p.player_name) = toLowerCase(name))

\* The flags of one BacktestResult are the ones place r of the winner calls for.
FlagsFollowPlace(result, r) ==
  /\ result.winner_correct <=> r = 1
  /\ result.winner_in_top_3 <=> (r >= 1 /\ r <= 3)
  /\ result.winner_in_top_5 <=> (r >= 1 /\ r <= 5)
  /\ result.winner_in_top_10 <=> (r >= 1 /\ r <= 10)
  /\ r = 0 => IsNull(result.predicted_rank_of_winner)

\* C10: with the actual top performer at place r of the predicted ranking,
\* winner_correct holds iff r = 1 and winner_in_top_K iff r <= K for K = 3, 5,
\* 10; with the winner absent all four flags are false and
\* predicted_rank_of_winner is null.  This holds for the result of
\* backtestDate and for every result of quickBacktest.
C10_FlagsFollowPlace ==
  /\ (bt_result.fn = "backtestDate" /\ bt_result.returned = "result") =>
       FlagsFollowPlace(bt_result, PlaceInPredictions(bt_result.actual_winner.player_name))
  /\ bt_summary.fn = "quickBacktest" =>
       \A n \in DOMAIN bt_summary.results :
         FlagsFollowPlace(bt_summary.results[n],
                          PlaceInPredictions(bt_summary.results[n].actual_winner.player_name))


Sidelined(p) == InjuryStatusOf(p) \in {"OUT", "DOUBTFUL"}

\* In this ranked list nobody sidelined stands above somebody who is not.
SidelinedLast(list) ==
  \A m, n \in DOMAIN list :
    (Sidelined(list[m]) /\ ~Sidelined(list[n])) => n < m

\* C11: in both lists of rankPlayers every OUT or DOUBTFUL player stands
\* below every HEALTHY, PROBABLE or QUESTIONABLE one, and a HEALTHY player or
\* one without a status gets the adjustment 0.
C11_SidelinedRankLast ==
  rk_out.fn = "rank" =>
    /\ SidelinedLast(rk_out.v1)
    /\ SidelinedLast(rk_out.v2)
    /\ \A n \in DOMAIN rk_out.v1 :
         InjuryStatusOf(rk_out.v1[n]) = "HEALTHY" => rk_out.v1[n].injury_adjustment = 0

\* rankPlayers ranked a list that began with the best-case OUT and DOUBTFUL
\* players and also held a worst-case QUESTIONABLE player and one without status.
C11_Witness ==
  /\ rk_out.fn = "rank"
  /\ Len(rk_input) >= 4
  /\ Sidelined(rk_input[1]) /\ Sidelined(rk_input[2])
  /\ \E n \in DOMAIN rk_input : InjuryStatusOf(rk_input[n]) = "QUESTIONABLE"
  /\ \E n \in DOMAIN rk_input : ~("injury_status" \in DOMAIN rk_input[n])
  /\ ~Sidelined(rk_out.v1[1]) /\ ~Sidelined(rk_out.v2[1])


\* ---------------------------------------------------------------------------
\* generateLineups (optimizer.ts lines 160-201)
\* ---------------------------------------------------------------------------

MaxGenPool == 4
GenTemplates == { <<"G", "UTIL">> }
GenCounts == {0, 1, 3, 5}
GenSalaries == {4000, 6000}                \* dollars

GenPools ==
  UNION { { [i \in 1..n |-> MkPlayer(i, f[i][1], f[i][2], LuScoreOf(i), f[i][3])] :
            f \in { g \in [1..n -> LuTeams \X GenSalaries \X LuPlayerPositions] :
                      n > 0 => g[1][1] = "LAL" } } :
          n \in 0..MaxGenPool }

GenSettingsSet ==
  [salary_cap : LuCaps, positions : GenTemplates,
   max_players_per_team : LuTeamLimits, model_version : {"v1", "v2"}]

\* The outer loop of buildLineup from slot idx on, for one outcome of the
\* density sort: the slots and the salary total it ends with.
RECURSIVE FillSlots(_, _, _, _, _, _, _)
FillSlots(sorted, settings, idx, slots, used, teamCounts, total) ==
  IF idx > Len(slots) THEN [slots |-> slots, total |-> total]
  ELSE LET k == LuPick(sorted, settings.positions[idx], used, teamCounts, total, settings)
       IN  IF k = 0
             THEN FillSlots(sorted, settings, idx + 1, slots, used, teamCounts, total)
             ELSE LET p == sorted[k]
                  IN  FillSlots(sorted, settings, idx + 1,
                                [slots EXCEPT ![idx] = p],
                                used \cup {p.player_id},
                                [t \in DOMAIN teamCounts \cup {p.team_abbrev} |->
                                   IF t = p.team_abbrev
                                     THEN TeamCountOf(teamCounts, t) + 1
                                     ELSE teamCounts[t]],
                                total + p.salary)

\* buildLineup for one outcome of its density sort.
buildLineupSorted(sorted, settings) ==
  LET filled == FillSlots(sorted, settings, 1,
                          [i \in DOMAIN settings.positions |-> NoPlayer], {}, << >>, 0)
      projected == LuProjected(filled.slots, settings)
  IN  [slots |-> filled.slots,
       total_salary |-> filled.total,
       remaining_salary |-> settings.salary_cap - filled.total,
       projected_score |-> projected,
       value_score |-> LuValueScore(projected, filled.total)]

\* The Lineups buildLineup can return for these players.
buildLineup(players, settings) ==
  { buildLineupSorted(sorted, settings) : sorted \in LuSortOutcomes(players, settings) }

\* lineup.slots.map(s => s.player?.player_id || '').sort().join(','): the
\* identifiers in sorted order, 0 standing for the empty string.
ComboKey(lineup) ==
  SortDescByKey([i \in DOMAIN lineup.slots |->
                   LET id == IF lineup.slots[i] = NoPlayer THEN 0
                             ELSE lineup.slots[i].player_id
                   IN  [key |-> 0 - id, item |-> id]])

\* lineup.slots.every(s => s.player !== null)
AllSlotsFilled(lineup) == \A i \in DOMAIN lineup.slots : lineup.slots[i] # NoPlayer

\* The test of line 191 with the usedCombos part dropped.
KeepsVariation_NoComboCheck(lineup, usedCombos) == AllSlotsFilled(lineup)

\* !usedCombos.has(key) && lineup.slots.every(s => s.player !== null)
KeepsVariation(lineup, usedCombos) ==
  ComboKey(lineup) \notin usedCombos /\ AllSlotsFilled(lineup)

\* topPlayers: the players by descending score, the first 20.
TopPlayers(players, settings) ==
  LET byScore == SortDescByKey([i \in DOMAIN players |->
                                  [key |-> LuScore(players[i], settings), item |-> players[i]]])
  IN  SubSeq(byScore, 1, Min2(20, Len(byScore)))

\* The variation loop from index i on (1-based): the lineups arrays it can end with.
RECURSIVE VariationLoop(_, _, _, _, _, _, _)
VariationLoop(players, count, settings, top, i, lineups, usedCombos) ==
  IF i > Min2(count - 1, Len(top)) THEN { lineups }
  ELSE LET filteredPlayers == SelectSeq(players, LAMBDA p : p.player_id # top[i].player_id)
       IN  UNION { LET keep == KeepsVariation(lineup, usedCombos)
                       pushed == IF keep THEN Append(lineups, lineup) ELSE lineups
                       combos == IF keep THEN usedCombos \cup {ComboKey(lineup)} ELSE usedCombos
                   IN  IF Len(pushed) >= count THEN { pushed }
                       ELSE VariationLoop(players, count, settings, top, i + 1, pushed, combos) :
                   lineup \in buildLineup(filteredPlayers, settings) }

\* lineups.sort((a, b) => b.projected_score - a.projected_score)
SortByProjectedScore(lineups) ==
  SortDescByKey([i \in DOMAIN lineups |->
                   [key |-> lineups[i].projected_score, item |-> lineups[i]]])

\* The arrays generateLineups can return.
generateLineups(players, count, settings) ==
  LET topPlayers == TopPlayers(players, settings)
  IN  UNION { { SortByProjectedScore(lineups) :
                  lineups \in VariationLoop(players, count, settings, topPlayers, 1,
                                            << primary >>, { ComboKey(primary) }) } :
              primary \in buildLineup(players, settings) }

GlInit ==
  /\ gl_players \in GenPools
  /\ gl_settings \in GenSettingsSet
  /\ gl_count \in GenCounts
  /\ gl_out = [fn |-> "none"]
  /\ LineupIdle
  /\ ScoreIdle
  /\ RankIdle
  /\ BacktestIdle
  /\ FrameIdle
  /\ RunIdle
  /\ CompareIdle
  /\ GetIdle
  /\ PageIdle

GenerateLineups ==
  /\ gl_out.fn = "none"
  /\ \E lineups \in generateLineups(gl_players, gl_count, gl_settings) :
       gl_out' = [fn |-> "generateLineups", lineups |-> lineups]
  /\ UNCHANGED << gl_players, gl_settings, gl_count >>
  /\ UNCHANGED notGenerate

GlNext == GenerateLineups

SpecGenerate == GlInit /\ [][GlNext]_vars

\* C12: every lineup generateLineups returns, the primary one included, has a
\* player in each of its slots.
C12_ReturnedLineupsFull ==
  gl_out.fn = "generateLineups" =>
    \A n \in DOMAIN gl_out.lineups : AllSlotsFilled(gl_out.lineups[n])

\* The identifiers assigned in a lineup, each with the number of slots it holds.
AssignedIds(lineup) ==
  LET ids == { lineup.slots[i].player_id : i \in FilledSlots(lineup.slots) }
  IN  [id \in ids |-> Cardinality({ i \in FilledSlots(lineup.slots) :
                                      lineup.slots[i].player_id = id })]

\* C13: no two lineups generateLineups returns hold the same collection of
\* assigned player identifiers.
C13_NoRepeatedCombination ==
  gl_out.fn = "generateLineups" =>
    \A m, n \in DOMAIN gl_out.lineups :
      m # n => AssignedIds(gl_out.lineups[m]) # AssignedIds(gl_out.lineups[n])

\* generateLineups ran all four variations, two of which built the same full
\* combination, and returned that combination once.
C13_Witness ==
  /\ gl_out.fn = "generateLineups"
  /\ gl_count = 5
  /\ Len(gl_players) = 4
  /\ Len(gl_out.lineups) >= 2
  /\ \E i, j \in DOMAIN gl_players :
       /\ i # j
       /\ \E a \in buildLineup(SelectSeq(gl_players, LAMBDA p : p.player_id # i), gl_settings) :
          \E b \in buildLineup(SelectSeq(gl_players, LAMBDA p : p.player_id # j), gl_settings) :
            /\ AllSlotsFilled(a)
            /\ ComboKey(a) = ComboKey(b)
            /\ Cardinality({ n \in DOMAIN gl_out.lineups :
                               ComboKey(gl_out.lineups[n]) = ComboKey(a) }) = 1

\* ---------------------------------------------------------------------------
\* What the ranking and optimizer functions write into the caller's memory
\* (scoring.ts lines 19-57 and 122-155, prediction-model.ts lines 324-331,
\* optimizer.ts lines 94-201)
\* ---------------------------------------------------------------------------
\* Memory is a list of objects and a list of arrays; an object's address is
\* its place in objs, an array's reference its place in arrs, and an array
\* holds addresses.  The caller's array is arrs[1] and holds objects 1..n.

MaxFrameList == 3

MemOf(list) == [objs |-> list, arrs |-> << [i \in DOMAIN list |-> i] >>]

\* The objects an array holds, in its order.
Deref(mem, ref) == [i \in DOMAIN mem.arrs[ref] |-> mem.objs[mem.arrs[ref][i]]]

\* array.map(x => ({ ... })): one new object per element, in a new array.
MapToNew(mem, recs) ==
  LET base == Len(mem.objs)
  IN  [mem |-> [objs |-> mem.objs \o recs,
                arrs |-> Append(mem.arrs, [i \in DOMAIN recs |-> base + i])],
       ref |-> Len(mem.arrs) + 1]

\* A new array of the given addresses (slice, filter).
NewArray(mem, addrs) ==
  [mem |-> [mem EXCEPT !.arrs = Append(@, addrs)], ref |-> Len(mem.arrs) + 1]

\* [...array] without the copy: the same array under a second name.
SpreadArray_SameArray(mem, ref) == [mem |-> mem, ref |-> ref]

\* [...array]: a new array of the same addresses.
SpreadArray(mem, ref) == NewArray(mem, mem.arrs[ref])

\* array.sort(cmp), in place: the array now holds its addresses in this order.
SortInPlace(mem, ref, order) == [mem EXCEPT !.arrs[ref] = order]

\* object.field = value
WriteField(mem, addr, field, value) ==
  [mem EXCEPT !.objs[addr] = Spread(@, (field :> value))]

\* The addresses of an array by descending value of a numeric field, ties in
\* array order.
AddrsByField(mem, ref, field) ==
  SortDescByKey([i \in DOMAIN mem.arrs[ref] |->
                   [key |-> mem.objs[mem.arrs[ref][i]][field], item |-> mem.arrs[ref][i]]])

\* array.forEach((p, i) => p[field] = i + 1) from element i on.
RECURSIVE WriteRanks(_, _, _, _)
WriteRanks(mem, ref, field, i) ==
  IF i > Len(mem.arrs[ref]) THEN mem
  ELSE WriteRanks(WriteField(mem, mem.arrs[ref][i], field, i), ref, field, i + 1)

\* Lines 145-149 of rankPlayers from element i of v1Ranked on.
RECURSIVE WriteRankChanges(_, _, _, _)
WriteRankChanges(mem, v1Ranked, v2Ranked, i) ==
  IF i > Len(mem.arrs[v1Ranked]) THEN mem
  ELSE LET addr == mem.arrs[v1Ranked][i]
           p == mem.objs[addr]
           found == FindIndex(mem.arrs[v2Ranked],
                              LAMBDA a : mem.objs[a].player_id = p.player_id)
           rankV2 == IF found = 0 THEN 0 ELSE mem.objs[mem.arrs[v2Ranked][found]].rank_v2
       IN  WriteRankChanges(WriteField(mem, addr, "rank_change", p.rank_v1 - rankV2),
                            v1Ranked, v2Ranked, i + 1)

\* rankPlayers on the array `players`: the memory after it, and its two arrays.
Mem_rankPlayers(mem, players) ==
  LET v1Scored == MapToNew(mem, scorePlayersV1(Deref(mem, players)))
      v2Scored == MapToNew(v1Scored.mem, scorePlayersV2(Deref(v1Scored.mem, players)))
      m2 == v2Scored.mem
      merged == MapToNew(m2, [i \in DOMAIN m2.arrs[v1Scored.ref] |->
                                Spread(Deref(m2, v1Scored.ref)[i],
                                       [v2_score |-> Deref(m2, v2Scored.ref)[i].v2_score])])
      v1Copy == SpreadArray(merged.mem, merged.ref)
      v1Sorted == SortInPlace(v1Copy.mem, v1Copy.ref,
                              AddrsByField(v1Copy.mem, v1Copy.ref, "v1_score"))
      v1Written == WriteRanks(v1Sorted, v1Copy.ref, "rank_v1", 1)
      v2Copy == SpreadArray(v1Written, merged.ref)
      v2Sorted == SortInPlace(v2Copy.mem, v2Copy.ref,
                              AddrsByField(v2Copy.mem, v2Copy.ref, "v2_score"))
      v2Written == WriteRanks(v2Sorted, v2Copy.ref, "rank_v2", 1)
  IN  [mem |-> WriteRankChanges(v2Written, v1Copy.ref, v2Copy.ref, 1),
       v1 |-> v1Copy.ref, v2 |-> v2Copy.ref]

\* predictAllPlayers of the weighted model on the array `players`.
Mem_Wt_predictAllPlayers(mem, players) ==
  LET predictions == MapToNew(mem, [i \in DOMAIN mem.arrs[players] |->
                                      Wt_predictPlayer(Deref(mem, players)[i])])
  IN  [mem |-> SortInPlace(predictions.mem, predictions.ref,
                           AddrsByField(predictions.mem, predictions.ref, "ceiling_score")),
       ref |-> predictions.ref]

\* predictAllPlayers of the stats-first model on the array `players`.
Mem_V1_predictAllPlayers(mem, players) ==
  LET predictions == MapToNew(mem, [i \in DOMAIN mem.arrs[players] |->
                                      V1_predictPlayer(Deref(mem, players)[i])])
  IN  [mem |-> SortInPlace(predictions.mem, predictions.ref,
                           AddrsByField(predictions.mem, predictions.ref, "ceiling_score")),
       ref |-> predictions.ref]

\* The objects of an array, each carrying its address.
Addressed(mem, ref) ==
  [i \in DOMAIN mem.arrs[ref] |->
     Spread(mem.objs[mem.arrs[ref][i]], [addr |-> mem.arrs[ref][i]])]

\* buildLineup on the array `players`: the memories it can leave, each with
\* the Lineup it returns (its slots hold the players with their addresses).
Mem_buildLineup(mem, players, settings) ==
  LET sortedPlayers == SpreadArray(mem, players)
  IN  { [mem |-> SortInPlace(sortedPlayers.mem, sortedPlayers.ref,
                             [i \in DOMAIN sorted |-> sorted[i].addr]),
         lineup |-> buildLineupSorted(sorted, settings)] :
        sorted \in LuSortOutcomes(Addressed(sortedPlayers.mem, sortedPlayers.ref), settings) }

\* The variation loop of generateLineups from index i of topPlayers on; as the
\* returned lineups are not objects of the caller, only their number and
\* keys are carried.
RECURSIVE Mem_VariationLoop(_, _, _, _, _, _, _, _)
Mem_VariationLoop(mem, players, count, settings, top, i, kept, usedCombos) ==
  IF i > Min2(count - 1, Len(mem.arrs[top])) THEN { mem }
  ELSE LET excludePlayer == mem.objs[mem.arrs[top][i]]
           filteredPlayers ==
             NewArray(mem, SelectSeq(mem.arrs[players],
                                     LAMBDA a : mem.objs[a].player_id # excludePlayer.player_id))
       IN  UNION { LET keep == KeepsVariation(built.lineup, usedCombos)
                       pushed == IF keep THEN kept + 1 ELSE kept
                       combos == IF keep THEN usedCombos \cup {ComboKey(built.lineup)}
                                 ELSE usedCombos
                   IN  IF pushed >= count THEN { built.mem }
                       ELSE Mem_VariationLoop(built.mem, players, count, settings, top,
                                              i + 1, pushed, combos) :
                   built \in Mem_buildLineup(filteredPlayers.mem, filteredPlayers.ref, settings) }

\* generateLineups on the array `players`: the memories it can leave.
Mem_generateLineups(mem, players, count, settings) ==
  LET copy == SpreadArray(mem, players)
      field == IF settings.model_version = "v2" THEN "v2_score" ELSE "v1_score"
      sorted == SortInPlace(copy.mem, copy.ref, AddrsByField(copy.mem, copy.ref, field))
      topPlayers == NewArray(sorted, SubSeq(sorted.arrs[copy.ref], 1,
                                            Min2(20, Len(sorted.arrs[copy.ref]))))
  IN  UNION { Mem_VariationLoop(primary.mem, players, count, settings, topPlayers.ref,
                                1, 1, { ComboKey(primary.lineup) }) :
              primary \in Mem_buildLineup(topPlayers.mem, players, settings) }

\* Lists of up to MaxFrameList players, the optimizer's pools reversed so that
\* the density sort has something to reorder.
FrameLists(pool) == { l \in ListsOf(pool) : Len(l) <= MaxFrameList }
FramePools ==
  { [i \in DOMAIN l |-> l[Len(l) + 1 - i]] : l \in { g \in GenPools : Len(g) <= MaxFrameList } }

FrInit ==
  /\ fr_mem \in { MemOf(l) : l \in FrameLists(RkScoringPool) \cup FrameLists(RkPredPool)
                                   \cup FramePools }
  /\ fr_settings \in { st \in GenSettingsSet : st.max_players_per_team = 2 }
  /\ fr_after = [fn |-> "none"]
  /\ LineupIdle
  /\ ScoreIdle
  /\ RankIdle
  /\ BacktestIdle
  /\ GenerateIdle
  /\ RunIdle
  /\ CompareIdle
  /\ GetIdle
  /\ PageIdle

IsPoolMem(mem) ==
  \A a \in DOMAIN mem.objs : "salary" \in DOMAIN mem.objs[a]

FrRankPlayers ==
  /\ fr_after.fn = "none"
  /\ IsScoringList(fr_mem.objs)
  /\ fr_after' = [fn |-> "rankPlayers", mem |-> Mem_rankPlayers(fr_mem, 1).mem]
  /\ UNCHANGED << fr_mem, fr_settings >>
  /\ UNCHANGED notFrame

FrPredictAllWt ==
  /\ fr_after.fn = "none"
  /\ IsPredList(fr_mem.objs)
  /\ fr_after' = [fn |-> "predictAllPlayers", mem |-> Mem_Wt_predictAllPlayers(fr_mem, 1).mem]
  /\ UNCHANGED << fr_mem, fr_settings >>
  /\ UNCHANGED notFrame

FrPredictAllV1 ==
  /\ fr_after.fn = "none"
  /\ IsPredList(fr_mem.objs)
  /\ fr_after' = [fn |-> "predictAllPlayers", mem |-> Mem_V1_predictAllPlayers(fr_mem, 1).mem]
  /\ UNCHANGED << fr_mem, fr_settings >>
  /\ UNCHANGED notFrame

FrBuildLineup ==
  /\ fr_after.fn = "none"
  /\ IsPoolMem(fr_mem)
  /\ \E built \in Mem_buildLineup(fr_mem, 1, fr_settings) :
       fr_after' = [fn |-> "buildLineup", mem |-> built.mem]
  /\ UNCHANGED << fr_mem, fr_settings >>
  /\ UNCHANGED notFrame

FrGenerateLineups ==
  /\ fr_after.fn = "none"
  /\ IsPoolMem(fr_mem)
  /\ \E count \in GenCounts :
       \E mem \in Mem_generateLineups(fr_mem, 1, count, fr_settings) :
         fr_after' = [fn |-> "generateLineups", mem |-> mem]
  /\ UNCHANGED << fr_mem, fr_settings >>
  /\ UNCHANGED notFrame

FrNext ==
  FrRankPlayers \/ FrPredictAllWt \/ FrPredictAllV1 \/ FrBuildLineup \/ FrGenerateLineups

SpecFrame == FrInit /\ [][FrNext]_vars

\* C14: after rankPlayers, predictAllPlayers, buildLineup or generateLineups
\* returns, the caller's array holds the same objects in the same order and
\* each of them has the fields and values it had before the call.
C14_InputUntouched ==
  fr_after.fn # "none" =>
    /\ fr_after.mem.arrs[1] = fr_mem.arrs[1]
    /\ \A a \in DOMAIN fr_mem.objs : fr_after.mem.objs[a] = fr_mem.objs[a]

\* generateLineups returned after sorting an array of the caller's three
\* objects into another order than the caller's.
C14_Witness ==
  /\ fr_after.fn = "generateLineups"
  /\ Len(fr_mem.arrs[1]) = 3
  /\ \E r \in DOMAIN fr_after.mem.arrs :
       /\ r # 1
       /\ Len(fr_after.mem.arrs[r]) = 3
       /\ Range(fr_after.mem.arrs[r]) = 1..3
       /\ fr_after.mem.arrs[r] # fr_mem.arrs[1]


\* ---------------------------------------------------------------------------
\* runBacktest (backtest.ts lines 314-389)
\* ---------------------------------------------------------------------------

MaxDates == 3

\* What each date of the catalog gives: whether getPredictionsForDate throws,
\* the predictions it returns, the day's box scores and the number of games.
DayCatalog ==
  << [throws |-> FALSE, predictions |-> BtRoster,
      actual |-> << [player_id |-> "b4", player_name |-> Name_AnthonyEdwards, pra |-> 53],
                    [player_id |-> "b2", player_name |-> Name_LukaDoncic, pra |-> 50] >>,
      num_games |-> 8],
     [throws |-> FALSE, predictions |-> Flip(BtRoster),
      actual |-> << [player_id |-> "b8", player_name |-> Name_LebronJamesBoxScore, pra |-> 60],
                    [player_id |-> "b4", player_name |-> Name_AnthonyEdwards, pra |-> 53] >>,
      num_games |-> 5],
     [throws |-> FALSE, predictions |-> FirstK(BtRoster, 3),
      actual |-> << [player_id |-> "b12", player_name |-> Name_VictorWembanyama, pra |-> 62] >>,
      num_games |-> 2],
     [throws |-> FALSE, predictions |-> << >>,
      actual |-> << [player_id |-> "b2", player_name |-> Name_LukaDoncic, pra |-> 50] >>,
      num_games |-> 4],
     [throws |-> FALSE, predictions |-> BtRoster, actual |-> << >>, num_games |-> 0],
     [throws |-> TRUE, predictions |-> << >>, actual |-> << >>, num_games |-> 0] >>

\* The body of the for-loop with `continue` replaced by `break`: the results
\* up to the first date without predictions.
RECURSIVE CollectResults_BreakOnEmpty(_)
CollectResults_BreakOnEmpty(dates) ==
  IF dates = << >> THEN << >>
  ELSE LET day == DayCatalog[Head(dates)]
           result == backtestDate(Head(dates), day.predictions, day.actual)
       IN  IF day.throws THEN CollectResults_BreakOnEmpty(Tail(dates))
           ELSE IF Len(day.predictions) = 0 THEN << >>
           ELSE IF result.returned = "null" THEN CollectResults_BreakOnEmpty(Tail(dates))
           ELSE << Spread(result, [num_games |-> day.num_games]) >>
                  \o CollectResults_BreakOnEmpty(Tail(dates))

\* The for-loop without its try/catch: a date that throws ends the loop.
RECURSIVE CollectResults_ThrowEnds(_)
CollectResults_ThrowEnds(dates) ==
  IF dates = << >> THEN << >>
  ELSE LET day == DayCatalog[Head(dates)]
           result == backtestDate(Head(dates), day.predictions, day.actual)
       IN  IF day.throws THEN << >>
           ELSE IF Len(day.predictions) = 0 THEN CollectResults_ThrowEnds(Tail(dates))
           ELSE IF result.returned = "null" THEN CollectResults_ThrowEnds(Tail(dates))
           ELSE << Spread(result, [num_games |-> day.num_games]) >>
                  \o CollectResults_ThrowEnds(Tail(dates))

\* The for-loop of lines 320-340: the results array it leaves.
RECURSIVE CollectResults(_)
CollectResults(dates) ==
  IF dates = << >> THEN << >>
  ELSE LET day == DayCatalog[Head(dates)]
           result == backtestDate(Head(dates), day.predictions, day.actual)
       IN  IF day.throws THEN CollectResults(Tail(dates))
           ELSE IF Len(day.predictions) = 0 THEN CollectResults(Tail(dates))
           ELSE IF result.returned = "null" THEN CollectResults(Tail(dates))
           ELSE << Spread(result, [num_games |-> day.num_games]) >>
                  \o CollectResults(Tail(dates))

\* runBacktest.  Rates are in thousandths of a percent, avg_winner_rank in
\* thousandths, avg_pra_difference in thousandths of a PRA point; best and
\* worst prediction are given by their dates, 0 for null.
runBacktest(dates) ==
  LET results == Listed(CollectResults(dates))
      total == Len(results)
      Count(flag) == Cardinality({ n \in DOMAIN results : results[n][flag] })
      ranksWithWinner == SelectSeq(results, LAMBDA r : ~IsNull(r.predicted_rank_of_winner))
      sortedByRank == SortDescByKey([n \in DOMAIN ranksWithWinner |->
                        [key |-> 0 - Val(ranksWithWinner[n].predicted_rank_of_winner),
                         item |-> ranksWithWinner[n]]])
  IN  IF total = 0
        THEN [fn |-> "runBacktest", dates_tested |-> 0, total_games |-> 0,
              winner_hit_rate |-> 0, top_3_hit_rate |-> 0, top_5_hit_rate |-> 0,
              top_10_hit_rate |-> 0, avg_winner_rank |-> 0, avg_pra_difference |-> 0,
              best_prediction |-> 0, worst_prediction |-> 0, results |-> << >>]
        ELSE [fn |-> "runBacktest",
              dates_tested |-> total,
              total_games |-> SumSeq([n \in DOMAIN results |-> results[n].num_games]),
              winner_hit_rate |-> (Count("winner_correct") * 100000) \div total,
              top_3_hit_rate |-> (Count("winner_in_top_3") * 100000) \div total,
              top_5_hit_rate |-> (Count("winner_in_top_5") * 100000) \div total,
              top_10_hit_rate |-> (Count("winner_in_top_10") * 100000) \div total,
              avg_winner_rank |->
                IF Len(ranksWithWinner) > 0
                  THEN (SumSeq([n \in DOMAIN ranksWithWinner |->
                                  Val(ranksWithWinner[n].predicted_rank_of_winner)]) * 1000)
                       \div Len(ranksWithWinner)
                  ELSE 0,
              avg_pra_difference |->
                (SumSeq([n \in DOMAIN results |-> results[n].pra_difference]) * 100) \div total,
              best_prediction |->
                IF Len(sortedByRank) > 0 THEN sortedByRank[1].date ELSE 0,
              worst_prediction |->
                IF Len(sortedByRank) > 0 THEN sortedByRank[Len(sortedByRank)].date ELSE 0,
              results |-> results]

RbInit ==
  /\ rb_dates \in SeqsUpTo(DOMAIN DayCatalog, MaxDates)
  /\ rb_summary = [fn |-> "none"]
  /\ rb_other = [fn |-> "none"]
  /\ LineupIdle
  /\ ScoreIdle
  /\ RankIdle
  /\ BacktestIdle
  /\ GenerateIdle
  /\ FrameIdle
  /\ CompareIdle
  /\ GetIdle
  /\ PageIdle

RunBacktest ==
  /\ rb_summary.fn = "none"
  /\ rb_summary' = runBacktest(rb_dates)
  /\ UNCHANGED << rb_dates, rb_other >>
  /\ UNCHANGED notRun

\* runBacktest once more, on the same dates in any order.
RunBacktestReordered ==
  /\ rb_summary.fn = "runBacktest"
  /\ rb_other.fn = "none"
  /\ \E dates \in SeqPermutations(rb_dates) :
       rb_other' = [fn |-> "runBacktest", dates |-> dates, summary |-> runBacktest(dates)]
  /\ UNCHANGED << rb_dates, rb_summary >>
  /\ UNCHANGED notRun

RbNext == RunBacktest \/ RunBacktestReordered

SpecRun == RbInit /\ [][RbNext]_vars

Aggregate(summary) ==
  << summary.dates_tested, summary.total_games, summary.winner_hit_rate,
     summary.top_3_hit_rate, summary.top_5_hit_rate, summary.top_10_hit_rate,
     summary.avg_winner_rank, summary.avg_pra_difference >>

ActualRankOfPrediction(predictions, actualResults) ==
  IF Len(predictions) = 0 THEN 0
  ELSE FindIndex(actualResults,
                 LAMBDA p : toLowerCase(p.player_name)
                              = toLowerCase(predictions[1].player_name))

\* C19: pra_difference is the distance between the top pick's projected PRA
\* and the PRA that same player realized, and no number is reported when the
\* top pick is not among the day's results.
C19_DifferenceOfTopPick ==
  (bt_result.fn = "backtestDate" /\ bt_result.returned = "result") =>
    LET k == ActualRankOfPrediction(bt_predictions, bt_actual)
    IN  IF k = 0 THEN "pra_difference" \notin DOMAIN bt_result
        ELSE bt_result.pra_difference
               = Abs(bt_predictions[1].projected_pra - bt_actual[k].pra * 10)


\* The number of player identifiers among the first five of both rankings.
IdOverlap(a, b) ==
  Cardinality({ a[i].player_id : i \in 1..Min2(5, Len(a)) }
              \cap { b[i].player_id : i \in 1..Min2(5, Len(b)) })

\* C18: the top-5 overlap generateComparison and both compareModels report is
\* the number of player identifiers common to the first five of the two
\* rankings, also when two players have one name.
C18_OverlapCountsIds ==
  /\ rk_out.fn = "rank" =>
       rk_out.comparison.top5_overlap = IdOverlap(rk_out.v1, rk_out.v2)
  /\ rk_self.fn = "compareModels" => rk_self.top5 = IdOverlap(rk_self.v1, rk_self.v2)


\* The value density of a candidate with the guard the claim describes, in
\* thousandths of a point per $1000: 0 when the salary is 0.
GuardedDensity(p, settings) ==
  IF p.salary = 0 THEN 0 ELSE (LuScore(p, settings) * 1000000) \div p.salary

\* C20: the optimizer's value-per-salary ratios are 0 when the divisor is 0:
\* value_score of a lineup with total_salary 0, and the density by which the
\* candidates are sorted for a candidate with salary 0.
C20_RatiosGuarded ==
  /\ lu_pc \in {"built", "validated"} =>
       (lu_lineup.total_salary = 0 => lu_lineup.value_score = 0)
  /\ lu_pc \in {"fill", "built", "validated"} =>
       \A i, j \in DOMAIN lu_sorted :
         i < j => GuardedDensity(lu_sorted[i], lu_settings)
                    >= GuardedDensity(lu_sorted[j], lu_settings)


\* ---------------------------------------------------------------------------
\* The comparison list of the predictions page (history/page.tsx lines
\* 367-368, 433-443, 644-672, 683, 893-899)
\* ---------------------------------------------------------------------------

\* The Prediction objects a row can carry: four players, each as fetched
\* before and after a refresh or a model switch.
CmpPredictions ==
  [player_id : {"p1", "p2", "p3", "p4"}, fetched : {1, 2}]

\* toggleComparePlayer with `<=` for `<` in the length test.
toggleComparePlayer_AtMostThree(comparePlayers, player) ==
  IF \E i \in DOMAIN comparePlayers : comparePlayers[i].player_id = player.player_id
    THEN SelectSeq(comparePlayers, LAMBDA p : p.player_id # player.player_id)
  ELSE IF Len(comparePlayers) <= 3 THEN Append(comparePlayers, player)
  ELSE comparePlayers

\* toggleComparePlayer: the comparePlayers it sets, the old one when it sets none.
toggleComparePlayer(comparePlayers, player) ==
  IF \E i \in DOMAIN comparePlayers : comparePlayers[i].player_id = player.player_id
    THEN SelectSeq(comparePlayers, LAMBDA p : p.player_id # player.player_id)
  ELSE IF Len(comparePlayers) < 3 THEN Append(comparePlayers, player)
  ELSE comparePlayers

CpInit ==
  /\ cp_compareMode = FALSE
  /\ cp_comparePlayers = << >>
  /\ LineupIdle
  /\ ScoreIdle
  /\ RankIdle
  /\ BacktestIdle
  /\ GenerateIdle
  /\ FrameIdle
  /\ RunIdle
  /\ GetIdle
  /\ PageIdle

\* A click on a row or card in compare mode (lines 893-899, 951-957), or on
\* the remove button of a panel entry (line 683).
ToggleComparePlayer ==
  /\ cp_compareMode
  /\ \E player \in CmpPredictions :
       cp_comparePlayers' = toggleComparePlayer(cp_comparePlayers, player)
  /\ UNCHANGED cp_compareMode
  /\ UNCHANGED notCompare

\* The Compare button (lines 644-648).
SwitchCompareMode ==
  /\ cp_compareMode' = ~cp_compareMode
  /\ cp_comparePlayers' = IF cp_compareMode THEN << >> ELSE cp_comparePlayers
  /\ UNCHANGED notCompare

\* 'Clear all', shown while the panel is (lines 662-672).
ClearAll ==
  /\ cp_compareMode
  /\ Len(cp_comparePlayers) > 0
  /\ cp_comparePlayers' = << >>
  /\ UNCHANGED cp_compareMode
  /\ UNCHANGED notCompare

CpNext == ToggleComparePlayer \/ SwitchCompareMode \/ ClearAll

SpecCompare == CpInit /\ [][CpNext]_vars

ListedIds(comparePlayers) == { comparePlayers[i].player_id : i \in DOMAIN comparePlayers }

\* What a step may do to the list: clear it, add one unlisted player while
\* fewer than three are listed, take one listed player out, or leave it.
ComparisonStep ==
  \/ cp_comparePlayers' = << >>
  \/ cp_comparePlayers' = cp_comparePlayers
  \/ \E player \in CmpPredictions :
       /\ player.player_id \notin ListedIds(cp_comparePlayers)
       /\ Len(cp_comparePlayers) < 3
       /\ cp_comparePlayers' = Append(cp_comparePlayers, player)
  \/ \E id \in ListedIds(cp_comparePlayers) :
       /\ ListedIds(cp_comparePlayers') = ListedIds(cp_comparePlayers) \ {id}
       /\ Len(cp_comparePlayers') = Len(cp_comparePlayers) - 1

\* C16: the comparison list never holds more than 3 players nor one
\* player_id twice; a toggle of a listed player takes it out, and a toggle of
\* an unlisted player while 3 are listed changes nothing.
C16_ComparisonListBounded ==
  /\ [](Len(cp_comparePlayers) <= 3
        /\ Cardinality(ListedIds(cp_comparePlayers)) = Len(cp_comparePlayers))
  /\ [][ComparisonStep]_vars
  /\ \A player \in CmpPredictions :
       LET toggled == toggleComparePlayer(cp_comparePlayers, player)
       IN  [](/\ player.player_id \in ListedIds(cp_comparePlayers)
                   => player.player_id \notin ListedIds(toggled)
              /\ (player.player_id \notin ListedIds(cp_comparePlayers)
                    /\ Len(cp_comparePlayers) = 3) => toggled = cp_comparePlayers)

\* Three players are listed, one of them from before a refresh and one from
\* after it.
C16_Witness ==
  /\ cp_compareMode
  /\ Len(cp_comparePlayers) = 3
  /\ \E i, j \in DOMAIN cp_comparePlayers :
       cp_comparePlayers[i].fetched = 1 /\ cp_comparePlayers[j].fetched = 2


\* ---------------------------------------------------------------------------
\* The predictions route: GET (predictions/route.ts lines 412-567)
\* ---------------------------------------------------------------------------

MaxFetched == 2

PoolPlayer(id) == CHOOSE p \in RkPredPool : p.player_id = id

\* generateDynamicMockData(date): the mock games and the mock players.
MockGames == << "mock1", "mock2", "mock3" >>
MockPlayers == << PoolPlayer("p1"), PoolPlayer("p2"), PoolPlayer("p3") >>

\* What ESPN has: the first n of these come back from a fetch that returns n.
EspnGames == << "401001", "401002", "401003" >>
EspnPlayers == << PoolPlayer("p4"), PoolPlayer("p6"), PoolPlayer("p5") >>

\* A fetch throws, or returns this many items.
FetchOutcomes ==
  { [throws |-> TRUE, count |-> 0] } \cup { [throws |-> FALSE, count |-> n] : n \in 0..MaxFetched }

\* The array the handler holds after the fetch: still empty when it threw.
Fetched(all, outcome) == IF outcome.throws THEN << >> ELSE FirstK(all, outcome.count)

\* What one of the five return paths puts in the body: the mock flag, the
\* data_source text, the games and the players it predicts for, whether the
\* predictions are cut to 50, whether v2_predictions and model_comparison are
\* present, and the error flag.
ReturnPath(mock, source, games, players, sliced, withComparison, error) ==
  [mock |-> mock, source |-> source, games |-> games, players |-> players,
   sliced |-> sliced, withComparison |-> withComparison, error |-> error]

\* The body of a return path, given the two rankings.
\* v2_predictions and model_comparison are Null for undefined.
GetBodyOf(request, path, v1Predictions, v2Predictions) ==
  LET Cut(list) == IF path.sliced THEN FirstK(list, 50) ELSE list
  IN  [fn |-> "GET",
       num_games |-> Len(path.games),
       num_players |-> Len(v1Predictions),
       using_mock_data |-> path.mock,
       data_source |-> path.source,
       model_version |-> request.model,
       games |-> path.games,
       predictions |-> Cut(IF request.model = "v2" THEN v2Predictions ELSE v1Predictions),
       v2_predictions |-> IF path.withComparison /\ request.model = "both"
                            THEN Some(Cut(v2Predictions)) ELSE Null,
       model_comparison |->
         IF path.withComparison /\ request.model = "both"
           THEN Some(V2_compareModels(v1Predictions, v2Predictions).top_5_overlap)
           ELSE Null,
       error |-> path.error]

\* predictAllPlayers, predictAllPlayersV2 and compareModels on the players of
\* the path, and the body made of them.
GetBody(request, path) ==
  CHOOSE body \in
    UNION { { GetBodyOf(request, path, v1Predictions, v2Predictions) :
                v1Predictions \in { Wt_predictAllPlayers(listed) },
                v2Predictions \in { V2_predictAllPlayersV2(listed) } } :
            listed \in { Listed(path.players) } } : TRUE

\* GET with the players test of line 498 dropped.
GET_NoPlayersTest(request, espn) ==
  LET games == Fetched(EspnGames, espn.games)
      players == Fetched(EspnPlayers, espn.players)
  IN  GetBody(request,
        IF espn.crash
          THEN ReturnPath(TRUE, "mock (error fallback)", MockGames, MockPlayers,
                          FALSE, FALSE, TRUE)
        ELSE IF request.mock
          THEN ReturnPath(TRUE, "mock (dynamic by date)", MockGames, MockPlayers,
                          FALSE, TRUE, FALSE)
        ELSE IF Len(games) = 0
          THEN ReturnPath(TRUE, "mock (no games)", MockGames, MockPlayers,
                          FALSE, TRUE, FALSE)
        ELSE ReturnPath(FALSE, "ESPN API", games, players, TRUE, TRUE, FALSE))

\* GET: the response for these query parameters when the fetches behave as
\* espn says; espn.crash is an exception thrown inside the outer try.
GET(request, espn) ==
  LET games == Fetched(EspnGames, espn.games)
      players == Fetched(EspnPlayers, espn.players)
  IN  GetBody(request,
        IF espn.crash
          THEN ReturnPath(TRUE, "mock (error fallback)", MockGames, MockPlayers,
                          FALSE, FALSE, TRUE)
        ELSE IF request.mock
          THEN ReturnPath(TRUE, "mock (dynamic by date)", MockGames, MockPlayers,
                          FALSE, TRUE, FALSE)
        ELSE IF Len(games) = 0
          THEN ReturnPath(TRUE, "mock (no games)", MockGames, MockPlayers,
                          FALSE, TRUE, FALSE)
        ELSE IF Len(players) = 0
          THEN ReturnPath(TRUE, "mixed (real games, mock players)", games, MockPlayers,
                          FALSE, TRUE, FALSE)
        ELSE ReturnPath(FALSE, "ESPN API", games, players, TRUE, TRUE, FALSE))

GtInit ==
  /\ gt_request \in [mock : BOOLEAN, model : {"v1", "v2", "both"}]
  /\ gt_espn \in [games : FetchOutcomes, players : FetchOutcomes, crash : BOOLEAN]
  /\ gt_response = [fn |-> "none"]
  /\ LineupIdle
  /\ ScoreIdle
  /\ RankIdle
  /\ BacktestIdle
  /\ GenerateIdle
  /\ FrameIdle
  /\ RunIdle
  /\ CompareIdle
  /\ PageIdle

HandleGet ==
  /\ gt_response.fn = "none"
  /\ gt_response' = GET(gt_request, gt_espn)
  /\ UNCHANGED << gt_request, gt_espn >>
  /\ UNCHANGED notGet

GtNext == HandleGet

SpecGet == GtInit /\ [][GtNext]_vars

PredictedIds(predictions) == { predictions[i].player_id : i \in DOMAIN predictions }

Came(outcome) == ~outcome.throws /\ outcome.count # 0

-----------------------------------------------------------------------------
(* ============== buildLineup against the reference greedy =============== *)

\* a's value density (score of the selected model / (salary / 1000)) is
\* strictly greater than b's; a zero salary with a positive score is +Infinity.
RefDenser(a, b, settings) ==
  IF a.salary = 0 THEN b.salary # 0
  ELSE IF b.salary = 0 THEN FALSE
  ELSE LuScore(a, settings) * b.salary > LuScore(b, settings) * a.salary

\* The slot labels a mapped position fills: G fills G and UTIL, F fills F and
\* UTIL, UTIL accepts anyone.
RefAccepts(slotPos, dkPosition) == slotPos = "UTIL" \/ slotPos = dkPosition

\* The pool indices that may go into a slot, given the slots filled so far.
RefCandidates(players, slots, slotPos, settings) ==
  { i \in DOMAIN players :
      /\ \A k \in FilledSlots(slots) : slots[k].player_id # players[i].player_id
      /\ RefAccepts(slotPos, players[i].dk_position)
      /\ SlotTeamCount(slots, players[i].team_abbrev) + 1 <= settings.max_players_per_team
      /\ SlotSalarySum(slots) + players[i].salary <= settings.salary_cap }

\* First in descending density order; equal densities keep the pool's order.
RefBest(players, cand, settings) ==
  CHOOSE i \in cand :
    \A j \in cand \ {i} :
      \/ RefDenser(players[i], players[j], settings)
      \/ ~ RefDenser(players[j], players[i], settings) /\ i < j

\* The reference greedy after the first k slots of the template.
RECURSIVE RefGreedy(_, _, _)
RefGreedy(players, settings, k) ==
  IF k = 0 THEN [i \in DOMAIN settings.positions |-> NoPlayer]
  ELSE LET prev == Listed(RefGreedy(players, settings, k - 1))
           cand == RefCandidates(players, prev, settings.positions[k], settings)
       IN  IF cand = {} THEN prev
           ELSE [prev EXCEPT ![k] = players[RefBest(players, cand, settings)]]

DistinctIds(slots) ==
  \A i, j \in FilledSlots(slots) : i # j => slots[i].player_id # slots[j].player_id

\* C21: buildLineup equals the reference greedy: slots are filled in template
\* order, and the player placed in a slot is the first candidate in descending
\* value-density order that is not yet used, is eligible for the slot label,
\* keeps its team within max_players_per_team and the running salary within
\* salary_cap; hence no player_id occupies two slots.
C21_EqualsReferenceGreedy ==
  /\ lu_pc = "fill" =>
       Listed(lu_slots) = Listed(RefGreedy(lu_players, lu_settings, lu_slotIdx - 1))
  /\ lu_pc \in {"built", "validated"} =>
       /\ Listed(lu_lineup.slots)
            = Listed(RefGreedy(lu_players, lu_settings, Len(lu_settings.positions)))
       /\ DistinctIds(lu_lineup.slots)

\* A returned lineup with every slot filled in which the densest player of the
\* pool is not in the first slot (its position does not fit it), and two
\* players of the pool have the same density.
C21_Witness ==
  /\ lu_pc = "built"
  /\ FilledSlots(lu_lineup.slots) = DOMAIN lu_lineup.slots
  /\ lu_lineup.slots[1] # lu_sorted[1]
  /\ \E i, j \in DOMAIN lu_players :
       /\ i # j
       /\ ~ RefDenser(lu_players[i], lu_players[j], lu_settings)
       /\ ~ RefDenser(lu_players[j], lu_players[i], lu_settings)

\* No player of the pool can go into the slot the outer loop is at.
NoCandidateForSlot ==
  RefCandidates(lu_players, lu_slots, lu_settings.positions[lu_slotIdx], lu_settings) = {}

\* One step of buildLineup while it fills the slots.
EmptySlotStep ==
  /\ (lu_pc = "fill" /\ lu_slotIdx <= Len(lu_slots)) =>
       /\ \A i \in DOMAIN lu_slots : lu_slots[i] # NoPlayer => lu_slots'[i] = lu_slots[i]
       /\ lu_slotIdx' = lu_slotIdx + 1
       /\ lu_pc' = "fill"
       /\ NoCandidateForSlot =>
            /\ lu_slots' = lu_slots
            /\ lu_totalSalary' = lu_totalSalary
  /\ (lu_pc = "fill" /\ lu_slotIdx > Len(lu_slots)) =>
       /\ lu_pc' = "built"
       /\ lu_lineup'.slots = lu_slots

\* C22: when no candidate satisfies all constraints for a slot, buildLineup
\* leaves that slot's player null, still processes the remaining slots, never
\* revises an earlier assignment, and returns a lineup normally, with
\* total_salary and projected_score summing only the filled slots.
C22_EmptySlotLeftAndPassed ==
  /\ [][EmptySlotStep]_vars
  /\ [](lu_pc \in {"built", "validated"} =>
          /\ lu_lineup.total_salary = SlotSalarySum(lu_lineup.slots)
          /\ lu_lineup.projected_score
               = SumSeq([i \in DOMAIN lu_lineup.slots |->
                           IF lu_lineup.slots[i] = NoPlayer THEN 0
                           ELSE LuScore(lu_lineup.slots[i], lu_settings)]))

\* A returned lineup whose first slot is empty and whose later slots hold
\* players.
C22_Witness ==
  /\ lu_pc = "built"
  /\ lu_lineup.slots[1] = NoPlayer
  /\ \A i \in DOMAIN lu_lineup.slots : i > 1 => lu_lineup.slots[i] # NoPlayer
  /\ lu_lineup.total_salary > 0

-----------------------------------------------------------------------------
(* ================= rank_change and the comparison record ================ *)

DistinctPlayerIds(list) ==
  \A i, j \in DOMAIN list : i # j => list[i].player_id # list[j].player_id

\* The rank_change values of a returned list, in list order.
ChangesOf(list) == [i \in DOMAIN list |-> list[i].rank_change]

MaxOf(S) == CHOOSE x \in S : \A y \in S : y <= x
MinOf(S) == CHOOSE x \in S : \A y \in S : x <= y

\* C23: for rankPlayers over players with distinct player_id, each player's
\* rank_change equals rank_v1 - rank_v2 with rank_v1 and rank_v2 each a
\* permutation of 1..N, and the comparison reports rank_changes = number of
\* players with non-zero rank_change, biggest_riser = the largest positive
\* rank_change, biggest_faller = the most negative rank_change, and
\* avg_rank_change = mean of |rank_change| over all N players (0 when N = 0).
C23_RankChangeAndComparison ==
  (rk_out.fn = "rank" /\ DistinctPlayerIds(rk_input)) =>
    LET v1 == rk_out.v1
        n == Len(rk_input)
        changes == ChangesOf(v1)
        up == { changes[i] : i \in DOMAIN v1 } \cap 1..n
        down == { changes[i] : i \in DOMAIN v1 } \cap (0 - n)..(0 - 1)
        c == rk_out.comparison
    IN  /\ Len(v1) = n
        /\ Len(rk_out.v2) = n
        /\ \A i \in DOMAIN v1 : v1[i].rank_change = v1[i].rank_v1 - v1[i].rank_v2
        /\ \A i \in DOMAIN v1 : v1[i].rank_v1 = i
        /\ \A i \in DOMAIN rk_out.v2 : rk_out.v2[i].rank_v2 = i
        /\ { v1[i].rank_v2 : i \in DOMAIN v1 } = 1..n
        /\ { rk_out.v2[i].rank_v1 : i \in DOMAIN rk_out.v2 } = 1..n
        /\ c.total_players = n
        /\ c.rank_changes = Cardinality({ i \in DOMAIN v1 : changes[i] # 0 })
        /\ IF up = {} THEN c.biggest_riser = NoMover
           ELSE c.biggest_riser.change = MaxOf(up)
        /\ IF down = {} THEN c.biggest_faller = NoMover
           ELSE c.biggest_faller.change = MinOf(down)
        /\ c.avg_rank_change
             = IF n = 0 THEN 0
               ELSE (SumSeq([i \in DOMAIN v1 |-> Abs(changes[i])]) * 1000) \div n

\* rankPlayers returned at least four players, one of them down by two places
\* or more, one of them up, and one that kept its place.
C23_Witness ==
  /\ rk_out.fn = "rank"
  /\ DistinctPlayerIds(rk_input)
  /\ Len(rk_out.v1) >= 4
  /\ rk_out.comparison.biggest_riser.change > 0
  /\ rk_out.comparison.biggest_faller.change <= 0 - 2
  /\ \E i \in DOMAIN rk_out.v1 : rk_out.v1[i].rank_change = 0

\* C27: in the comparison returned by rankPlayers over players with distinct
\* player_id, the rank_change values sum to 0 across all players, so
\* biggest_riser is null exactly when biggest_faller is null, and both are null
\* exactly when rank_changes = 0.
C27_ChangesSumToZero ==
  (rk_out.fn = "rank" /\ DistinctPlayerIds(rk_input)) =>
    LET c == rk_out.comparison
    IN  /\ SumSeq(ChangesOf(rk_out.v1)) = 0
        /\ (c.biggest_riser = NoMover) <=> (c.biggest_faller = NoMover)
        /\ (c.biggest_riser = NoMover /\ c.biggest_faller = NoMover) <=> (c.rank_changes = 0)

\* rankPlayers returned a comparison with a riser and a faller of different
\* sizes: one player down three places, three others up one each.
C27_Witness ==
  /\ rk_out.fn = "rank"
  /\ DistinctPlayerIds(rk_input)
  /\ rk_out.comparison.biggest_riser.change = 1
  /\ rk_out.comparison.biggest_faller.change = 0 - 3
  /\ rk_out.comparison.rank_changes = 4

-----------------------------------------------------------------------------
(* ============== Null spread and null over_under per variant ============= *)

\* What the variant fn returns for a record.
OutcomeOf(fn, p) ==
  CASE fn = "wt" -> Wt_predictPlayer(p)
    [] fn = "v1" -> V1_predictPlayer(p)
    [] fn = "v2" -> V2_predictPlayerV2(p)
    [] fn = "ml" -> ML_predictPlayerV2(p)
    [] fn = "s1" -> scorePlayerV1(p)
    [] fn = "s2" -> scorePlayerV2(p)

\* The sub-scores that read spread or over_under.
LineScores(fn, o) ==
  IF fn \in PredictFns
    THEN << o.component_scores.matchup, o.component_scores.environment >>
    ELSE << o.context_score >>

\* A spread for which every spread term of the variant adds nothing (times 1.0
\* for the multipliers), and an over_under likewise, in tenths.  The weighted
\* model's matchup score has no such spread, and the sigmoid model's features
\* have neither.
NeutralSpread(fn) == IF fn \in {"s1", "s2"} THEN Some(30) ELSE Some(-60)
NeutralTotal(fn) ==
  CASE fn = "wt" -> Some(2170)
    [] fn = "v1" -> Some(2200)
    [] fn = "v2" -> Some(2240)
    [] OTHER -> Some(2150)

\* The sub-scores of a record with a null spread are the ones with the spread
\* terms left out.
NullSpreadLeftOut(fn, p, o) ==
  IF fn = "ml"
    THEN LineScores(fn, o) # LineScores(fn, OutcomeOf(fn, [p EXCEPT !.spread = Some(0)]))
    ELSE /\ LET neutral == LineScores(fn, OutcomeOf(fn, [p EXCEPT !.spread = NeutralSpread(fn)]))
            IN  IF fn = "wt" THEN LineScores(fn, o)[2] = neutral[2]
                ELSE LineScores(fn, o) = neutral
         /\ fn = "wt" => o.component_scores.matchup = 500

\* The sub-scores of a record with a null over_under are the ones with the
\* over_under terms left out.
NullTotalLeftOut(fn, p, o) ==
  IF fn = "ml"
    THEN LineScores(fn, o) # LineScores(fn, OutcomeOf(fn, [p EXCEPT !.over_under = Some(2200)]))
    ELSE LineScores(fn, o)
           = LineScores(fn, OutcomeOf(fn, [p EXCEPT !.over_under = NeutralTotal(fn)]))

\* C24: in every scoring variant a null spread, and a null over_under,
\* contributes nothing: the affected sub-scores equal what they are with that
\* term left out, and in particular a null spread is not scored the same as
\* spread = 0 and a null over_under is not scored as a fixed numeric total.
C24_NullContributesNothing ==
  \A i \in DOMAIN sc_runs :
    LET fn == sc_runs[i].fn
        p == sc_runs[i].input
        o == sc_runs[i].output
    IN  /\ IsNull(p.spread) => NullSpreadLeftOut(fn, p, o)
        /\ IsNull(p.over_under) => NullTotalLeftOut(fn, p, o)

-----------------------------------------------------------------------------
(* ============ Empty history, and which end of it is recent ============== *)

\* The record with the one-game history [pra_avg] (pra_avg a whole number of
\* points) in place of the empty one.
OneGameOf(p) ==
  [p EXCEPT !.last_games_pra = << p.pra_avg \div 10 >>,
            !.max_pra_last_10 = p.pra_avg]

\* C25: for a player with an empty recent-history list, the recency/form
\* sub-score equals the score computed from the single value pra_avg (the same
\* result as a one-game history [pra_avg]), the average used is pra_avg, and
\* the reported standard deviation is 0, in every variant.
C25_EmptyHistoryUsesSeason ==
  \A i \in DOMAIN sc_runs :
    (sc_runs[i].fn \in PredictFns /\ sc_runs[i].input.last_games_pra = << >>) =>
      LET fn == sc_runs[i].fn
          p == sc_runs[i].input
          o == sc_runs[i].output
      IN  /\ p.pra_avg % 10 = 0 =>
               o.component_scores.recent_pra
                 = OutcomeOf(fn, OneGameOf(p)).component_scores.recent_pra
          /\ o.stats.avg_pra_last_10 = p.pra_avg
          /\ o.stats.std_dev_pra = 0

\* The final three entries of the history are higher than its first three.
RisingHistory(lastGames) ==
  /\ Len(lastGames) >= 6
  /\ \A i \in 1..3, j \in (Len(lastGames) - 2)..Len(lastGames) : lastGames[j] > lastGames[i]

\* The variant reads the history of the record as trending down: a cold
\* streak for the weighted and the context-first models, a recent-form score
\* below its middle value 0.5 for the sigmoid model.
TrendingDown(fn, p) ==
  CASE fn = "wt" -> WeightedSum(p.last_games_pra) * 2
                      < SumSeq(p.last_games_pra) * (Len(p.last_games_pra) + 1)
    [] fn = "v1" -> V1_calculateRecentPraScore(p).coldStreak
    [] fn = "v2" -> V2_calculateBasePlayerScore(p).coldStreak
    [] fn = "ml" -> ML_extractFeatures(p).recent_form_score < 500000

\* C26: all scoring variants use one ordering convention for last_games_pra:
\* the same end of the list is treated as most recent by the weighted moving
\* average, by the last-3 hot/cold streak detection and by the sigmoid
\* variant's recent-form trend and hot-streak features, so a history whose
\* final three entries are higher than its first three is never classified as
\* trending down by any variant.
C26_OneOrderingConvention ==
  \A i \in DOMAIN sc_runs :
    (sc_runs[i].fn \in PredictFns /\ RisingHistory(sc_runs[i].input.last_games_pra)) =>
      ~ TrendingDown(sc_runs[i].fn, sc_runs[i].input)

-----------------------------------------------------------------------------
(* =============== runBacktest: dates that give no result ================= *)

\* The date gives a result: its callback returns predictions without
\* throwing and the day has box scores.
GivesResult(date) ==
  /\ ~ DayCatalog[date].throws
  /\ Len(DayCatalog[date].predictions) > 0
  /\ Len(DayCatalog[date].actual) > 0

\* The dates of the results, in the order of the results.
ResultDates(summary) == [n \in DOMAIN summary.results |-> summary.results[n].date]

\* C28: runBacktest handles the dates one at a time in the given order and
\* always returns: a date whose prediction callback yields an empty list, whose
\* actual results are empty, or whose processing throws contributes no result
\* and does not prevent any later date from being processed; dates_tested
\* equals the number of dates that produced a result, and when none did the
\* summary is all zeros with null best and worst predictions.
C28_SkippedDatesDoNotStop ==
  rb_summary.fn = "runBacktest" =>
    LET giving == SelectSeq(rb_dates, GivesResult)
    IN  /\ Listed(ResultDates(rb_summary)) = giving
        /\ rb_summary.dates_tested = Len(giving)
        /\ giving = << >> =>
             /\ Aggregate(rb_summary) = << 0, 0, 0, 0, 0, 0, 0, 0 >>
             /\ rb_summary.best_prediction = 0
             /\ rb_summary.worst_prediction = 0
             /\ rb_summary.results = << >>

\* runBacktest returned one result for three dates: the first threw, the
\* second had no box scores, the third gave the result.
C28_Witness ==
  /\ rb_summary.fn = "runBacktest"
  /\ Len(rb_dates) = 3
  /\ DayCatalog[rb_dates[1]].throws
  /\ ~ DayCatalog[rb_dates[2]].throws
  /\ Len(DayCatalog[rb_dates[2]].predictions) > 0
  /\ Len(DayCatalog[rb_dates[2]].actual) = 0
  /\ rb_summary.dates_tested = 1
  /\ rb_summary.results[1].date = rb_dates[3]

\* ---------------------------------------------------------------------------
\* The predictions page (Home, history/page.tsx lines 356-490): the state
\* hooks data, loading, error, modelVersion, selectedDate and refreshing, the
\* effect that fetches on mount and on every change of the selection, the
\* Retry and Refresh buttons, the responses as they arrive, and the render
\* that puts the hooks' values on screen.

\* The fetchPredictions calls one page makes in the model.
MaxCalls == 4

\* The dates of the date picker (upcomingTuesdays, lines 372-392), two of them.
PageTuesdays == {"tue1", "tue2"}

\* What a response to /api/predictions?model=..&date=.. carries, told apart by
\* the request it answers.
ResponseBody(model, date) == [model |-> model, game_date |-> date]

\* Which of the three returns of Home renders (lines 464, 475, 492).
PageView(loading, error) ==
  IF loading THEN "loading"
  ELSE IF error # Null THEN "error"
  ELSE "predictions"

\* What a render reads of loading, error and refreshing.
Rendered(loading, error, refreshing) ==
  [loading |-> loading, error |-> error, refreshing |-> refreshing]

\* The view on screen: its buttons are the only ones a user can click.
OnScreen == PageView(pg_rendered.loading, pg_rendered.error)

\* The calls whose fetch has not answered yet.
Outstanding(calls) == { i \in DOMAIN calls : calls[i].state = "awaiting" }

\* fetchPredictions up to its await (lines 399-401): loading is set and the
\* request leaves with the modelVersion and selectedDate of the render the
\* function belongs to. refresh tells a call awaited by handleRefresh.
fetchPredictions(model, date, refresh) ==
  /\ Len(pg_calls) < MaxCalls
  /\ pg_loading' = TRUE
  /\ pg_calls' = Append(pg_calls, [model |-> model, date |-> date,
                                   refresh |-> refresh, state |-> "awaiting"])

PgInit ==
  /\ PageIdle
  /\ LineupIdle
  /\ ScoreIdle
  /\ RankIdle
  /\ BacktestIdle
  /\ GenerateIdle
  /\ FrameIdle
  /\ RunIdle
  /\ CompareIdle
  /\ GetIdle

\* The effect after the first render (lines 394-396).
MountEffect ==
  /\ pg_calls = << >>
  /\ fetchPredictions(pg_modelVersion, pg_selectedDate, FALSE)
  /\ UNCHANGED << pg_data, pg_error, pg_modelVersion, pg_selectedDate, pg_refreshing,
                  pg_rendered >>
  /\ UNCHANGED notPage

\* A click on a model toggle (lines 508, 518, 590, 598), which only the
\* predictions view renders. The handler's setModelVersion re-renders the
\* page at once; the effect, whose dependency changed, runs after that render
\* and calls fetchPredictions, whose setLoading(true) waits for a later render.
SelectModel ==
  /\ OnScreen = "predictions"
  /\ \E model \in {"v1", "v2"} :
       /\ model # pg_modelVersion
       /\ pg_modelVersion' = model
       /\ fetchPredictions(model, pg_selectedDate, FALSE)
  /\ pg_rendered' = Rendered(pg_loading, pg_error, pg_refreshing)
  /\ UNCHANGED << pg_data, pg_error, pg_selectedDate, pg_refreshing >>
  /\ UNCHANGED notPage

\* A click on a date of the date picker (line 627), likewise.
SelectDate ==
  /\ OnScreen = "predictions"
  /\ \E date \in PageTuesdays :
       /\ date # pg_selectedDate
       /\ pg_selectedDate' = date
       /\ fetchPredictions(pg_modelVersion, date, FALSE)
  /\ pg_rendered' = Rendered(pg_loading, pg_error, pg_refreshing)
  /\ UNCHANGED << pg_data, pg_error, pg_modelVersion, pg_refreshing >>
  /\ UNCHANGED notPage

\* handleRefresh up to its await (lines 412-414), from the Refresh button of
\* the predictions view (lines 530-532); the handler's own updates are on
\* screen when it returns.
handleRefresh ==
  /\ OnScreen = "predictions"
  /\ ~(pg_rendered.refreshing \/ pg_rendered.loading)
  /\ pg_refreshing' = TRUE
  /\ fetchPredictions(pg_modelVersion, pg_selectedDate, TRUE)
  /\ pg_rendered' = Rendered(TRUE, pg_error, TRUE)
  /\ UNCHANGED << pg_data, pg_error, pg_modelVersion, pg_selectedDate >>
  /\ UNCHANGED notPage

\* A click on Retry, which only the error view renders (lines 481-486).
RetryClick ==
  /\ OnScreen = "error"
  /\ fetchPredictions(pg_modelVersion, pg_selectedDate, FALSE)
  /\ pg_rendered' = Rendered(TRUE, pg_error, pg_refreshing)
  /\ UNCHANGED << pg_data, pg_error, pg_modelVersion, pg_selectedDate, pg_refreshing >>
  /\ UNCHANGED notPage

\* handleRefresh after its await (line 415), for the call it awaited.
AfterCall(call) == IF call.refresh THEN FALSE ELSE pg_refreshing

\* A call's response arrives with an ok status and a body (lines 402-404),
\* then the finally block (line 408).
FetchSucceeds ==
  \E i \in Outstanding(pg_calls) :
    /\ pg_data' = Some(ResponseBody(pg_calls[i].model, pg_calls[i].date))
    /\ pg_loading' = FALSE
    /\ pg_refreshing' = AfterCall(pg_calls[i])
    /\ pg_calls' = [pg_calls EXCEPT ![i].state = "ok"]
    /\ UNCHANGED << pg_error, pg_modelVersion, pg_selectedDate, pg_rendered >>
    /\ UNCHANGED notPage

\* A call's fetch rejects, or its response is not ok (lines 402, 405-406),
\* then the finally block (line 408).
FetchFails ==
  \E i \in Outstanding(pg_calls) :
    \E message \in {"Failed to fetch predictions", "Failed to fetch"} :
      /\ pg_error' = Some(message)
      /\ pg_loading' = FALSE
      /\ pg_refreshing' = AfterCall(pg_calls[i])
      /\ pg_calls' = [pg_calls EXCEPT ![i].state = "failed"]
      /\ UNCHANGED << pg_data, pg_modelVersion, pg_selectedDate, pg_rendered >>
      /\ UNCHANGED notPage

\* The page re-renders with the hooks' values of the moment (lines 464-492),
\* as it does some time after an update made outside a click handler: in the
\* effect, or after an await.
Render ==
  /\ pg_rendered # Rendered(pg_loading, pg_error, pg_refreshing)
  /\ pg_rendered' = Rendered(pg_loading, pg_error, pg_refreshing)
  /\ UNCHANGED << pg_data, pg_loading, pg_error, pg_modelVersion, pg_selectedDate,
                  pg_refreshing, pg_calls >>
  /\ UNCHANGED notPage

PgNext ==
  \/ MountEffect
  \/ SelectModel
  \/ SelectDate
  \/ handleRefresh
  \/ RetryClick
  \/ FetchSucceeds
  \/ FetchFails
  \/ Render

SpecPage == PgInit /\ [][PgNext]_vars

\* A step in which a fetchPredictions call completes successfully.
CallSucceeds ==
  \E i \in Outstanding(pg_calls) :
    /\ i \in DOMAIN pg_calls'
    /\ pg_calls'[i].state = "ok"

\* C29: once a fetchPredictions call has completed successfully the page
\* shows the predictions view, also when an earlier call had failed: the
\* hooks a successful completion leaves behind render the predictions view,
\* not the error view.
C29_SuccessShowsPredictions ==
  [][CallSucceeds => PageView(pg_loading', pg_error') = "predictions"]_vars

\* Every call made so far has completed, and none of them failed.
AllCallsSucceeded ==
  /\ pg_calls # << >>
  /\ \A i \in DOMAIN pg_calls : pg_calls[i].state = "ok"

\* C30: with requests overlapping after a change of the selection, loading
\* is false only when no request is outstanding, and once all requests have
\* completed (none failing) data is the response to the latest selection,
\* in whatever order the responses arrived.
C30_LatestSelectionWins ==
  /\ ~pg_loading => Outstanding(pg_calls) = {}
  /\ AllCallsSucceeded => pg_data = Some(ResponseBody(pg_modelVersion, pg_selectedDate))

=============================================================================
